---- MODULE Spec2Model ----
(***************************************************************************)
(* Model of the knowledge-graph engine of deep_search_app:                 *)
(*   core/knowledge_graph.py  (KnowledgeGraph, on networkx.DiGraph)        *)
(*   core/path_analyzer.py    (PathAnalyzer)                               *)
(*   core/relationship_analyzer.py (RelationshipAnalyzer)                  *)
(*   core/search_engine.py    (SearchEngine; the language model it asks is *)
(*                            an input of the model)                       *)
(*   analysis/statistics.py   (GraphStatistics)                            *)
(*                                                                         *)
(* Specifications                                                          *)
(*   Spec          one KnowledgeGraph under add_entity, add_relationship   *)
(*                 and from_dict, with its two listing queries             *)
(*   SpecPaths     neighbour and path queries on loaded graphs             *)
(*   SpecShortest  find_shortest_path on loaded four-entity graphs          *)
(*   SpecWeights   path-weight and path-strength queries on loaded graphs  *)
(*   SpecStructure bridges and critical entities of loaded graphs          *)
(*   SpecChains    get_path_summary on chains of up to seven entities      *)
(*   SpecRelations influence score and relationship summary                *)
(*   SpecBuild     build_graph_from_entities on an empty graph             *)
(*   SpecExpand    expand_graph on an empty graph, one round per step      *)
(*   SpecStats     degree distribution and network summary                 *)
(*   SpecQueries   every query operation on loaded graphs, with absent     *)
(*                 names and negative orders among the arguments           *)
(*   SpecHops      find_multi_hop_paths on weighted four-entity graphs     *)
(*                                                                         *)
(* Conventions                                                             *)
(*   - Weights are integers counting tenths: 10 stands for 1.0, 5 for 0.5. *)
(*     Quotients (means, strength scores) are exact fractions              *)
(*     [num, den] in the same unit; floating-point rounding is modelled    *)
(*     for the mean of find_multi_hop_paths only.                          *)
(*   - A Python dict is a function; a dict that keeps insertion order and  *)
(*     is iterated (nodes, adjacency) is a sequence of its keys.           *)
(*   - An optional argument is a sequence of length at most one:           *)
(*     None is <<>>, a supplied value x is <<x>>.                           *)
(***************************************************************************)
EXTENDS Integers, Sequences, FiniteSets, TLC

\* ---------------------------------------------------------------- bounds
\* Mutating calls made on one KnowledgeGraph in the store specification
MaxOps == 3

\* Entity names used by the store specification
StoreNames == {"A", "B"}

M1 == [description |-> "d1"]
M2 == [confidence |-> 9]
EmptyMeta == <<>>

\* ------------------------------------------------------ program constants
One == 10
DefaultWeight == 5
DefaultType == "related_to"

\* ------------------------------------------------------------- utilities
None == <<>>
Some(x) == <<x>>
Opt(S) == {None} \cup {Some(x) : x \in S}

Range(s) == {s[i] : i \in DOMAIN s}

Min2(a, b) == IF b < a THEN b ELSE a
Max2(a, b) == IF b > a THEN b ELSE a

\* dict.get(k, default)
DictGet(d, k, default) == IF k \in DOMAIN d THEN d[k] ELSE default
\* dict.get(k) used as an optional value
DictGetOpt(d, k) == IF k \in DOMAIN d THEN Some(d[k]) ELSE None
\* dict.update / d[k] = v on a function
DictSet(d, k, v) == [x \in (DOMAIN d) \cup {k} |-> IF x = k THEN v ELSE d[x]]
DictUpdate(d, upd) ==
    [x \in (DOMAIN d) \cup (DOMAIN upd) |-> IF x \in DOMAIN upd THEN upd[x] ELSE d[x]]

\* Python truthiness of an optional mapping: None and {} are falsy
Truthy(opt) == opt # None /\ DOMAIN opt[1] # {}

\* ------------------------------------------------------- networkx.DiGraph
\* nodes: keys of _node in insertion order; succ/pred: keys of _succ[n] and
\* _pred[n] in insertion order; attr: the edge data dict of each edge.
EmptyDiGraph == [nodes |-> <<>>, succ |-> <<>>, pred |-> <<>>, attr |-> <<>>]

HasNode(G, n) == n \in Range(G.nodes)
HasEdge(G, u, v) == <<u, v>> \in DOMAIN G.attr

nx_add_node(G, n) ==
    IF HasNode(G, n) THEN G
    ELSE [G EXCEPT !.nodes = Append(@, n),
                   !.succ  = DictSet(@, n, <<>>),
                   !.pred  = DictSet(@, n, <<>>)]

\* Faulty variant: the successor and predecessor keys are appended even when the edge exists
nx_add_edge_AlwaysAppend(G, u, v, attrs) ==
    LET G1 == nx_add_node(nx_add_node(G, u), v)
        old == IF HasEdge(G1, u, v) THEN G1.attr[<<u, v>>] ELSE <<>>
    IN  [G1 EXCEPT
            !.succ[u] = Append(@, v),
            !.pred[v] = Append(@, u),
            !.attr    = DictSet(@, <<u, v>>, DictUpdate(old, attrs))]

nx_add_edge(G, u, v, attrs) ==
    LET G1 == nx_add_node(nx_add_node(G, u), v)
        old == IF HasEdge(G1, u, v) THEN G1.attr[<<u, v>>] ELSE <<>>
    IN  [G1 EXCEPT
            !.succ[u] = IF HasEdge(G1, u, v) THEN @ ELSE Append(@, v),
            !.pred[v] = IF HasEdge(G1, u, v) THEN @ ELSE Append(@, u),
            !.attr    = DictSet(@, <<u, v>>, DictUpdate(old, attrs))]

\* G.edges(data=True): by node, then by successor, in insertion order
RECURSIVE EdgesFrom(_, _, _)
EdgesFrom(G, u, i) ==
    IF i > Len(G.succ[u]) THEN <<>>
    ELSE <<[u |-> u, v |-> G.succ[u][i], data |-> G.attr[<<u, G.succ[u][i]>>]]>>
         \o EdgesFrom(G, u, i + 1)

RECURSIVE EdgesOf(_, _)
EdgesOf(G, i) ==
    IF i > Len(G.nodes) THEN <<>>
    ELSE EdgesFrom(G, G.nodes[i], 1) \o EdgesOf(G, i + 1)

nx_edges(G) == EdgesOf(G, 1)

\* --------------------------------------------------------- KnowledgeGraph
\* A KnowledgeGraph object: [graph, entity_data]
NewKG == [graph |-> EmptyDiGraph, entity_data |-> <<>>]

\* Faulty variant: the node is added only together with metadata
add_entity_OnlyWithMetadata(self, entity, metadata) ==
    IF Truthy(metadata)
    THEN [graph |-> nx_add_node(self.graph, entity),
          entity_data |-> DictSet(self.entity_data, entity, metadata[1])]
    ELSE self

add_entity(self, entity, metadata) ==
    LET G1 == nx_add_node(self.graph, entity)
    IN  [graph |-> G1,
         entity_data |-> IF Truthy(metadata)
                         THEN DictSet(self.entity_data, entity, metadata[1])
                         ELSE self.entity_data]

\* Faulty variant: the upper clamp is missing
ClampWeight_NoUpper(weight) == Max2(0, weight)

ClampWeight(weight) == Max2(0, Min2(One, weight))

\* Faulty variant: the relationship is stored in both directions
add_relationship_Mirrored(self, source, target, weight, relationship_type, metadata) ==
    LET w  == ClampWeight(weight)
        k1 == IF ~HasNode(self.graph, source)
              THEN add_entity(self, source, None) ELSE self
        k2 == IF ~HasNode(k1.graph, target)
              THEN add_entity(k1, target, None) ELSE k1
        attrs == [weight |-> w,
                  relationship_type |-> relationship_type,
                  metadata |-> IF Truthy(metadata) THEN metadata[1] ELSE EmptyMeta]
    IN  [k2 EXCEPT !.graph =
            nx_add_edge(nx_add_edge(@, source, target, attrs), target, source, attrs)]

add_relationship(self, source, target, weight, relationship_type, metadata) ==
    LET w  == ClampWeight(weight)
        k1 == IF ~HasNode(self.graph, source)
              THEN add_entity(self, source, None) ELSE self
        k2 == IF ~HasNode(k1.graph, target)
              THEN add_entity(k1, target, None) ELSE k1
    IN  [k2 EXCEPT !.graph =
            nx_add_edge(@, source, target,
                [weight |-> w,
                 relationship_type |-> relationship_type,
                 metadata |-> IF Truthy(metadata) THEN metadata[1] ELSE EmptyMeta])]

get_entities(self) == self.graph.nodes

get_relationships(self) == nx_edges(self.graph)

\* ----------------------------------------------------------- export/import
RECURSIVE ToDictNodes(_, _)
ToDictNodes(self, i) ==
    IF i > Len(self.graph.nodes) THEN <<>>
    ELSE <<[id |-> self.graph.nodes[i],
            metadata |-> DictGet(self.entity_data, self.graph.nodes[i], EmptyMeta)]>>
         \o ToDictNodes(self, i + 1)

RECURSIVE ToDictEdges(_)
ToDictEdges(es) ==
    IF es = <<>> THEN <<>>
    ELSE <<[source |-> Head(es).u,
            target |-> Head(es).v,
            weight |-> DictGet(Head(es).data, "weight", DefaultWeight),
            relationship_type |-> DictGet(Head(es).data, "relationship_type", DefaultType),
            metadata |-> DictGet(Head(es).data, "metadata", EmptyMeta)]>>
         \o ToDictEdges(Tail(es))

RECURSIVE ToDictEdges_NoMetadata(_)
ToDictEdges_NoMetadata(es) ==
    IF es = <<>> THEN <<>>
    ELSE <<[source |-> Head(es).u,
            target |-> Head(es).v,
            weight |-> DictGet(Head(es).data, "weight", DefaultWeight),
            relationship_type |-> DictGet(Head(es).data, "relationship_type", DefaultType)]>>
         \o ToDictEdges_NoMetadata(Tail(es))

\* Faulty variant: the edge records are exported without their metadata
to_dict_NoEdgeMetadata(self) ==
    [nodes |-> ToDictNodes(self, 1),
     edges |-> ToDictEdges_NoMetadata(nx_edges(self.graph))]

to_dict(self) ==
    [nodes |-> ToDictNodes(self, 1), edges |-> ToDictEdges(nx_edges(self.graph))]

RECURSIVE FromDictNodes(_, _)
FromDictNodes(kg, nodes) ==
    IF nodes = <<>> THEN kg
    ELSE FromDictNodes(
            add_entity(kg, Head(nodes).id, DictGetOpt(Head(nodes), "metadata")),
            Tail(nodes))

RECURSIVE FromDictEdges(_, _)
FromDictEdges(kg, edges) ==
    IF edges = <<>> THEN kg
    ELSE FromDictEdges(
            add_relationship(kg, Head(edges).source, Head(edges).target,
                DictGet(Head(edges), "weight", DefaultWeight),
                DictGet(Head(edges), "relationship_type", DefaultType),
                DictGetOpt(Head(edges), "metadata")),
            Tail(edges))

from_dict(data) ==
    FromDictEdges(FromDictNodes(NewKG, DictGet(data, "nodes", <<>>)),
                  DictGet(data, "edges", <<>>))

\* ------------------------------------------------------------- neighbours
\* self.graph.to_undirected().neighbors(n): an edge in either direction is an
\* adjacency; a self-loop makes n its own neighbour.
UndirectedNeighbors(G, n) == Range(G.succ[n]) \cup Range(G.pred[n])

\* The loop "for _ in range(order)" of get_neighbors
RECURSIVE NeighborLevels(_, _, _, _)
NeighborLevels(G, current_level, visited, rounds) ==
    IF rounds <= 0 THEN current_level
    ELSE LET next_level ==
                UNION {UndirectedNeighbors(G, node) \ visited : node \in current_level}
         IN  NeighborLevels(G, next_level, visited \cup next_level, rounds - 1)

\* Faulty variant: an order below 1 is answered before the entity is looked up
get_neighbors_LateMembership(self, entity, order) ==
    IF order < 1 THEN {entity}
    ELSE IF ~HasNode(self.graph, entity) THEN {}
    ELSE IF order = 1 THEN UndirectedNeighbors(self.graph, entity)
    ELSE NeighborLevels(self.graph, {entity}, {entity}, order)

get_neighbors(self, entity, order) ==
    IF ~HasNode(self.graph, entity) THEN {}
    ELSE IF order = 1 THEN UndirectedNeighbors(self.graph, entity)
    ELSE NeighborLevels(self.graph, {entity}, {entity}, order)

\* ------------------------------------------------------------------ paths
\* nx.all_simple_paths on a DiGraph with one target: depth-first over the
\* successors in insertion order; `path` is the visited dict, in order.
RECURSIVE SimplePathsFrom(_, _, _, _)
RECURSIVE SimplePathsChildren(_, _, _, _, _)
SimplePathsChildren(G, path, target, cutoff, i) ==
    LET children == G.succ[path[Len(path)]]
    IN  IF i > Len(children) THEN <<>>
        ELSE LET child == children[i]
                 here  == IF child \in Range(path) THEN <<>>
                          ELSE IF child = target THEN <<Append(path, child)>>
                          ELSE SimplePathsFrom(G, Append(path, child), target, cutoff)
             IN  here \o SimplePathsChildren(G, path, target, cutoff, i + 1)

SimplePathsFrom(G, path, target, cutoff) ==
    IF Len(path) < cutoff
    THEN SimplePathsChildren(G, path, target, cutoff, 1)
    ELSE IF target \in Range(G.succ[path[Len(path)]]) \ Range(path)
         THEN <<Append(path, target)>>
         ELSE <<>>

\* cutoff is optional (None: len(G) - 1).  For source = target the library
\* yields nothing before networkx 3.2 and the one-node path from 3.2 on:
\* `singleton` says which library is installed.
nx_all_simple_paths(G, source, target, cutoff, singleton) ==
    LET c == IF cutoff = None THEN Len(G.nodes) - 1 ELSE cutoff[1]
    IN  IF source = target
        THEN IF singleton /\ c >= 0 THEN << <<source>> >> ELSE <<>>
        ELSE IF c < 1 THEN <<>>
        ELSE SimplePathsFrom(G, <<source>>, target, c)

\* max_length is optional; "if max_length:" is false for None and for 0
find_all_paths(self, source, target, max_length, singleton) ==
    IF ~HasNode(self.graph, source) \/ ~HasNode(self.graph, target) THEN <<>>
    ELSE IF max_length # None /\ max_length[1] # 0
         THEN nx_all_simple_paths(self.graph, source, target, max_length, singleton)
         ELSE nx_all_simple_paths(self.graph, source, target, None, singleton)

\* nx.bidirectional_shortest_path: breadth-first from both ends, the smaller
\* fringe first.  st = [pred, succ, forward_fringe, reverse_fringe, meet];
\* pred and succ map a reached node to its optional parent.
Flatten(adj, level) ==
    LET F[i \in 0..Len(level)] ==
            IF i = 0 THEN <<>>
            ELSE F[i - 1] \o [k \in 1..Len(adj[level[i]]) |->
                                 [v |-> level[i], w |-> adj[level[i]][k]]]
    IN  F[Len(level)]

RECURSIVE ExpandForward(_, _)
ExpandForward(pairs, st) ==
    IF pairs = <<>> THEN st
    ELSE LET v   == Head(pairs).v
             w   == Head(pairs).w
             st1 == IF w \notin DOMAIN st.pred
                    THEN [st EXCEPT !.forward_fringe = Append(@, w),
                                    !.pred = DictSet(@, w, Some(v))]
                    ELSE st
         IN  IF w \in DOMAIN st1.succ THEN [st1 EXCEPT !.meet = Some(w)]
             ELSE ExpandForward(Tail(pairs), st1)

RECURSIVE ExpandReverse(_, _)
ExpandReverse(pairs, st) ==
    IF pairs = <<>> THEN st
    ELSE LET v   == Head(pairs).v
             w   == Head(pairs).w
             st1 == IF w \notin DOMAIN st.succ
                    THEN [st EXCEPT !.succ = DictSet(@, w, Some(v)),
                                    !.reverse_fringe = Append(@, w)]
                    ELSE st
         IN  IF w \in DOMAIN st1.pred THEN [st1 EXCEPT !.meet = Some(w)]
             ELSE ExpandReverse(Tail(pairs), st1)

RECURSIVE BidirectionalSearch(_, _)
BidirectionalSearch(G, st) ==
    IF st.forward_fringe = <<>> \/ st.reverse_fringe = <<>> THEN st
    ELSE LET st1 ==
                IF Len(st.forward_fringe) <= Len(st.reverse_fringe)
                THEN ExpandForward(Flatten(G.succ, st.forward_fringe),
                                   [st EXCEPT !.forward_fringe = <<>>])
                ELSE ExpandReverse(Flatten(G.pred, st.reverse_fringe),
                                   [st EXCEPT !.reverse_fringe = <<>>])
         IN  IF st1.meet # None THEN st1 ELSE BidirectionalSearch(G, st1)

nx_bidirectional_pred_succ(G, source, target) ==
    IF target = source
    THEN [pred |-> DictSet(<<>>, target, None), succ |-> DictSet(<<>>, source, None),
          forward_fringe |-> <<>>, reverse_fringe |-> <<>>, meet |-> Some(source)]
    ELSE BidirectionalSearch(G,
            [pred |-> DictSet(<<>>, source, None), succ |-> DictSet(<<>>, target, None),
             forward_fringe |-> <<source>>, reverse_fringe |-> <<target>>,
             meet |-> None])

\* the path from the source to w (pred links), then from w to the target
RECURSIVE BackTo(_, _)
BackTo(pred, w) ==
    IF pred[w] = None THEN <<w>> ELSE Append(BackTo(pred, pred[w][1]), w)

RECURSIVE ForwardFrom(_, _)
ForwardFrom(succ, w) ==
    IF succ[w] = None THEN <<>> ELSE <<succ[w][1]>> \o ForwardFrom(succ, succ[w][1])

\* None when NetworkXNoPath is raised
nx_shortest_path(G, source, target) ==
    LET r == nx_bidirectional_pred_succ(G, source, target)
    IN  IF r.meet = None THEN None
        ELSE Some(BackTo(r.pred, r.meet[1]) \o ForwardFrom(r.succ, r.meet[1]))

\* Faulty variant: the first path of the depth-first enumeration is returned
find_shortest_path_FirstFound(self, source, target) ==
    IF ~HasNode(self.graph, source) \/ ~HasNode(self.graph, target) THEN None
    ELSE IF source = target THEN Some(<<source>>)
    ELSE LET ps == nx_all_simple_paths(self.graph, source, target, None, FALSE)
         IN  IF ps = <<>> THEN None ELSE Some(ps[1])

find_shortest_path(self, source, target) ==
    IF ~HasNode(self.graph, source) \/ ~HasNode(self.graph, target) THEN None
    ELSE nx_shortest_path(self.graph, source, target)

\* ----------------------------------------------------------- path weights
\* Exact fractions, in tenths like the weights
Frac(n, d) == [num |-> n, den |-> d]
FracOfInt(n) == Frac(n, 1)
FracMul(a, b) == Frac(a.num * b.num, a.den * b.den)
FracAdd(a, b) == Frac(a.num * b.den + b.num * a.den, a.den * b.den)
FracInv(a) == Frac(a.den, a.num)
FracEq(a, b) == a.num * b.den = b.num * a.den
FracLess(a, b) == a.num * b.den < b.num * a.den
FracLeq(a, b) == a.num * b.den <= b.num * a.den

RECURSIVE SumSeq(_)
SumSeq(ws) == IF ws = <<>> THEN 0 ELSE Head(ws) + SumSeq(Tail(ws))

RECURSIVE PathWeightsFrom(_, _, _)
PathWeightsFrom(G, path, i) ==
    IF i > Len(path) - 1 THEN <<>>
    ELSE (IF HasEdge(G, path[i], path[i + 1])
          THEN <<DictGet(G.attr[<<path[i], path[i + 1]>>], "weight", DefaultWeight)>>
          ELSE <<>>)
         \o PathWeightsFrom(G, path, i + 1)

RECURSIVE PathWeightsFrom_DefaultForMissing(_, _, _)
PathWeightsFrom_DefaultForMissing(G, path, i) ==
    IF i > Len(path) - 1 THEN <<>>
    ELSE (IF HasEdge(G, path[i], path[i + 1])
          THEN <<DictGet(G.attr[<<path[i], path[i + 1]>>], "weight", DefaultWeight)>>
          ELSE <<DefaultWeight>>)
         \o PathWeightsFrom_DefaultForMissing(G, path, i + 1)

\* Faulty variant: a missing edge contributes the default weight instead of nothing
get_path_weights_DefaultForMissing(self, path) ==
    PathWeightsFrom_DefaultForMissing(self.graph, path, 1)

get_path_weights(self, path) == PathWeightsFrom(self.graph, path, 1)

get_average_path_weight(self, path) ==
    LET weights == get_path_weights(self, path)
    IN  IF weights # <<>> THEN Frac(SumSeq(weights), Len(weights)) ELSE FracOfInt(0)

\* 0.2, the decay per extra hop, as a fraction
HopDecay == Frac(2, 10)

\* Faulty variant: the penalty counts every hop, the first one included
calculate_path_strength_PenaltyFromFirstHop(self, path) ==
    IF Len(path) < 2 THEN FracOfInt(0)
    ELSE LET weights == get_path_weights(self, path)
         IN  IF weights = <<>> THEN FracOfInt(0)
             ELSE LET avg_weight     == Frac(SumSeq(weights), Len(weights))
                      path_length    == Len(path) - 1
                      length_penalty ==
                          FracInv(FracAdd(FracOfInt(1),
                                          FracMul(FracOfInt(path_length), HopDecay)))
                  IN  FracMul(avg_weight, length_penalty)

\* PathAnalyzer._calculate_path_strength; 1 is FracOfInt(1) as a factor
calculate_path_strength(self, path) ==
    IF Len(path) < 2 THEN FracOfInt(0)
    ELSE LET weights == get_path_weights(self, path)
         IN  IF weights = <<>> THEN FracOfInt(0)
             ELSE LET avg_weight     == Frac(SumSeq(weights), Len(weights))
                      path_length    == Len(path) - 1
                      length_penalty ==
                          FracInv(FracAdd(FracOfInt(1),
                                          FracMul(FracOfInt(path_length - 1), HopDecay)))
                  IN  FracMul(avg_weight, length_penalty)

\* ----------------------------------------------------------- PathAnalyzer
\* f'{entity1} → {entity2}'
DirectionLabel(entity1, entity2) == entity1 \o " → " \o entity2

\* The dictionary appended for one path of find_all_connecting_paths
PathInfo(self, path, direction) ==
    LET weights == get_path_weights(self, path)
    IN  [path |-> path,
         direction |-> direction,
         length |-> Len(path) - 1,
         weights |-> weights,
         average_weight |-> IF weights # <<>>
                            THEN Frac(SumSeq(weights), Len(weights))
                            ELSE FracOfInt(0),
         strength_score |-> calculate_path_strength(self, path)]

PathInfos(self, paths, direction) ==
    [i \in 1..Len(paths) |-> PathInfo(self, paths[i], direction)]

\* list.sort(key=strength_score, reverse=True): descending and stable, an
\* element goes behind every element that is not smaller
RECURSIVE InsertByStrength(_, _)
InsertByStrength(sorted, x) ==
    IF sorted = <<>> THEN <<x>>
    ELSE IF FracLess(Head(sorted).strength_score, x.strength_score)
         THEN <<x>> \o sorted
         ELSE <<Head(sorted)>> \o InsertByStrength(Tail(sorted), x)

RECURSIVE SortByStrength(_, _)
SortByStrength(acc, xs) ==
    IF xs = <<>> THEN acc
    ELSE SortByStrength(InsertByStrength(acc, Head(xs)), Tail(xs))

\* max_length of find_all_connecting_paths when omitted
DefaultConnectLength == 5

find_all_connecting_paths(self, entity1, entity2, max_length, singleton) ==
    LET paths_1_to_2 == find_all_paths(self, entity1, entity2, Some(max_length), singleton)
        paths_2_to_1 == find_all_paths(self, entity2, entity1, Some(max_length), singleton)
        all_path_infos ==
            PathInfos(self, paths_1_to_2, DirectionLabel(entity1, entity2))
            \o PathInfos(self, paths_2_to_1, DirectionLabel(entity2, entity1))
    IN  SortByStrength(<<>>, all_path_infos)

\* all_paths[:10]
TopPaths == 10

Take(s, n) == SubSeq(s, 1, Min2(n, Len(s)))

get_path_summary(self, entity1, entity2, singleton) ==
    LET shortest_path == find_shortest_path(self, entity1, entity2)
        all_paths == find_all_connecting_paths(self, entity1, entity2,
                                               DefaultConnectLength, singleton)
    IN  IF all_paths = <<>> /\ shortest_path = None
        THEN [entity1 |-> entity1, entity2 |-> entity2, connected |-> FALSE,
              shortest_path |-> None, path_count |-> 0]
        ELSE [entity1 |-> entity1, entity2 |-> entity2, connected |-> TRUE,
              shortest_path |-> shortest_path,
              shortest_path_length |-> IF shortest_path # None
                                       THEN Some(Len(shortest_path[1]) - 1) ELSE None,
              path_count |-> Len(all_paths),
              strongest_path |-> IF all_paths # <<>> THEN Some(all_paths[1]) ELSE None,
              all_paths |-> Take(all_paths, TopPaths)]

\* --------------------------------------------------------- undirected view
\* networkx.Graph: [nodes, adj]; adj[n] holds the neighbours of n in insertion
\* order, a self-loop makes n a neighbour of itself.
nx_Graph_add_edge(U, u, v) ==
    LET U1 == [U EXCEPT !.adj[u] = IF v \in Range(@) THEN @ ELSE Append(@, v)]
    IN  [U1 EXCEPT !.adj[v] = IF u \in Range(@) THEN @ ELSE Append(@, u)]

RECURSIVE AddUndirectedEdges(_, _)
AddUndirectedEdges(U, es) ==
    IF es = <<>> THEN U
    ELSE AddUndirectedEdges(nx_Graph_add_edge(U, Head(es).u, Head(es).v), Tail(es))

\* DiGraph.to_undirected(): the nodes, then every edge in the order of G.edges
to_undirected(G) ==
    AddUndirectedEdges([nodes |-> G.nodes, adj |-> [n \in Range(G.nodes) |-> <<>>]],
                       nx_edges(G))

\* Faulty variant: the edges of n are removed and n itself is kept
nx_remove_node_KeepsNode(U, n) ==
    [nodes |-> U.nodes,
     adj   |-> [m \in Range(U.nodes) |->
                   IF m = n THEN <<>> ELSE SelectSeq(U.adj[m], LAMBDA x : x # n)]]

\* Graph.remove_node(n)
nx_remove_node(U, n) ==
    [nodes |-> SelectSeq(U.nodes, LAMBDA x : x # n),
     adj   |-> [m \in Range(U.nodes) \ {n} |-> SelectSeq(U.adj[m], LAMBDA x : x # n)]]

\* _plain_bfs: the nodes reached from the source, level by level
RECURSIVE plain_bfs(_, _, _)
plain_bfs(U, seen, thislevel) ==
    IF thislevel = {} THEN seen
    ELSE LET nextlevel == UNION {Range(U.adj[v]) : v \in thislevel} \ seen
         IN  plain_bfs(U, seen \cup nextlevel, nextlevel)

\* nx.connected_components: one component per node not seen before
RECURSIVE ComponentsFrom(_, _, _)
ComponentsFrom(U, i, seen) ==
    IF i > Len(U.nodes) THEN <<>>
    ELSE IF U.nodes[i] \in seen THEN ComponentsFrom(U, i + 1, seen)
    ELSE LET c == plain_bfs(U, {U.nodes[i]}, {U.nodes[i]})
         IN  <<c>> \o ComponentsFrom(U, i + 1, seen \cup c)

nx_connected_components(U) == ComponentsFrom(U, 1, {})

nx_number_connected_components(U) == Len(nx_connected_components(U))

\* Graph.edges(): every edge once, from the endpoint that comes first
nx_undirected_edges(U) ==
    LET F[i \in 0..Len(U.nodes)] ==
            IF i = 0 THEN <<>>
            ELSE F[i - 1] \o
                 [k \in 1..Len(SelectSeq(U.adj[U.nodes[i]],
                                  LAMBDA x : x \notin {U.nodes[j] : j \in 1..(i - 1)})) |->
                     <<U.nodes[i],
                       SelectSeq(U.adj[U.nodes[i]],
                           LAMBDA x : x \notin {U.nodes[j] : j \in 1..(i - 1)})[k]>>]
    IN  F[Len(U.nodes)]

\* nx.dfs_labeled_edges: st = [visited, edges]; the children of `parent` from
\* position i on
RECURSIVE DfsChildren(_, _, _, _)
DfsChildren(U, parent, i, st) ==
    IF i > Len(U.adj[parent]) THEN st
    ELSE LET child == U.adj[parent][i]
         IN  IF child \in st.visited
             THEN DfsChildren(U, parent, i + 1,
                     [st EXCEPT !.edges =
                         Append(@, [u |-> parent, v |-> child, d |-> "nontree"])])
             ELSE LET st1 == [visited |-> st.visited \cup {child},
                              edges |-> Append(st.edges,
                                  [u |-> parent, v |-> child, d |-> "forward"])]
                      st2 == DfsChildren(U, child, 1, st1)
                  IN  DfsChildren(U, parent, i + 1,
                         [st2 EXCEPT !.edges =
                             Append(@, [u |-> parent, v |-> child, d |-> "reverse"])])

RECURSIVE DfsFrom(_, _, _)
DfsFrom(U, i, st) ==
    IF i > Len(U.nodes) THEN st
    ELSE LET start == U.nodes[i]
         IN  IF start \in st.visited THEN DfsFrom(U, i + 1, st)
             ELSE LET st1 == [visited |-> st.visited \cup {start},
                              edges |-> Append(st.edges,
                                  [u |-> start, v |-> start, d |-> "forward"])]
                      st2 == DfsChildren(U, start, 1, st1)
                  IN  DfsFrom(U, i + 1,
                         [st2 EXCEPT !.edges =
                             Append(@, [u |-> start, v |-> start, d |-> "reverse"])])

dfs_labeled_edges(U) == DfsFrom(U, 1, [visited |-> {}, edges |-> <<>>]).edges

\* _dfs_cycle_forest: H = [parent, out, nodes]; out[n] lists the edges of H
\* that leave n as [to, nontree]; nodes is the preorder
RECURSIVE CycleForest(_, _)
CycleForest(es, H) ==
    IF es = <<>> THEN H
    ELSE LET u == Head(es).u
             v == Head(es).v
             d == Head(es).d
             H1 ==
                IF d = "forward"
                THEN IF u = v
                     THEN [parent |-> DictSet(H.parent, v, None),
                           out    |-> DictSet(H.out, v, <<>>),
                           nodes  |-> Append(H.nodes, v)]
                     ELSE [parent |-> DictSet(H.parent, v, Some(u)),
                           out    |-> DictSet(H.out, v, <<[to |-> u, nontree |-> FALSE]>>),
                           nodes  |-> Append(H.nodes, v)]
                ELSE IF d = "nontree" /\ v \notin {H.out[u][k].to : k \in DOMAIN H.out[u]}
                THEN [H EXCEPT !.out[v] = Append(@, [to |-> u, nontree |-> TRUE])]
                ELSE H
         IN  CycleForest(Tail(es), H1)

dfs_cycle_forest(U) ==
    CycleForest(dfs_labeled_edges(U), [parent |-> <<>>, out |-> <<>>, nodes |-> <<>>])

\* _build_chain: from u over v up the parents until a visited node;
\* c = [edges, visited]
RECURSIVE build_chain(_, _, _, _)
build_chain(H, u, v, c) ==
    IF v \in c.visited THEN [c EXCEPT !.edges = @ \cup {<<u, v>>}]
    ELSE build_chain(H, v, H.parent[v][1],
            [edges |-> c.edges \cup {<<u, v>>}, visited |-> c.visited \cup {v}])

RECURSIVE ChainsOfNode(_, _, _, _)
ChainsOfNode(H, u, k, c) ==
    IF k > Len(H.out[u]) THEN c
    ELSE IF H.out[u][k].nontree
         THEN ChainsOfNode(H, u, k + 1, build_chain(H, u, H.out[u][k].to, c))
         ELSE ChainsOfNode(H, u, k + 1, c)

RECURSIVE ChainsFrom(_, _, _)
ChainsFrom(H, i, c) ==
    IF i > Len(H.nodes) THEN c
    ELSE ChainsFrom(H, i + 1,
            ChainsOfNode(H, H.nodes[i], 1, [c EXCEPT !.visited = @ \cup {H.nodes[i]}]))

\* the edges of all chains of nx.chain_decomposition
chain_edges(U) == ChainsFrom(dfs_cycle_forest(U), 1, [edges |-> {}, visited |-> {}]).edges

\* Faulty variant: an edge is looked up in the chains in one direction only
nx_bridges_OneDirection(U) ==
    LET ce == chain_edges(U)
    IN  SelectSeq(nx_undirected_edges(U), LAMBDA e : e \notin ce)

\* nx.bridges: the edges that lie on no chain
nx_bridges(U) ==
    LET ce == chain_edges(U)
    IN  SelectSeq(nx_undirected_edges(U),
                  LAMBDA e : e \notin ce /\ <<e[2], e[1]>> \notin ce)

find_bridges(self) == nx_bridges(to_undirected(self.graph))

\* list.sort(key=lambda x: x[1], reverse=True): descending and stable
RECURSIVE InsertByCount(_, _)
InsertByCount(sorted, x) ==
    IF sorted = <<>> THEN <<x>>
    ELSE IF Head(sorted)[2] < x[2] THEN <<x>> \o sorted
    ELSE <<Head(sorted)>> \o InsertByCount(Tail(sorted), x)

RECURSIVE SortByCount(_, _)
SortByCount(acc, xs) ==
    IF xs = <<>> THEN acc ELSE SortByCount(InsertByCount(acc, Head(xs)), Tail(xs))

RECURSIVE CriticalFrom(_, _, _, _)
CriticalFrom(undirected, entities, i, current_components) ==
    IF i > Len(entities) THEN <<>>
    ELSE LET temp_graph == nx_remove_node(undirected, entities[i])
             new_components == nx_number_connected_components(temp_graph)
         IN  (IF new_components > current_components
              THEN << <<entities[i], new_components>> >> ELSE <<>>)
             \o CriticalFrom(undirected, entities, i + 1, current_components)

find_critical_entities(self) ==
    LET entities == get_entities(self)
        undirected == to_undirected(self.graph)
        current_components == nx_number_connected_components(undirected)
    IN  SortByCount(<<>>, CriticalFrom(undirected, entities, 1, current_components))

\* --------------------------------------------------- RelationshipAnalyzer
\* KnowledgeGraph.get_entity_relationships: (other, weight, type) per
\* out-edge and per in-edge, a self-loop appears in both lists
get_entity_relationships(self, entity) ==
    IF ~HasNode(self.graph, entity) THEN [outgoing |-> <<>>, incoming |-> <<>>]
    ELSE LET G == self.graph
         IN  [outgoing |->
                 [k \in 1..Len(G.succ[entity]) |->
                     LET data == G.attr[<<entity, G.succ[entity][k]>>]
                     IN  <<G.succ[entity][k],
                           DictGet(data, "weight", DefaultWeight),
                           DictGet(data, "relationship_type", DefaultType)>>],
              incoming |->
                 [k \in 1..Len(G.pred[entity]) |->
                     LET data == G.attr[<<G.pred[entity][k], entity>>]
                     IN  <<G.pred[entity][k],
                           DictGet(data, "weight", DefaultWeight),
                           DictGet(data, "relationship_type", DefaultType)>>]]

\* math.log(k) in hundredths, rounded, for k = 1..12
LnCenti == <<0, 69, 110, 139, 161, 179, 195, 208, 220, 230, 240, 248>>

\* Faulty variant: the logarithm is taken of the number of connections itself
InfluenceFactor_LogOfCount(num_connections) ==
    Frac(1000 + LnCenti[num_connections], 1000)

\* 1 + math.log(num_connections + 1) / 10
InfluenceFactor(num_connections) == Frac(1000 + LnCenti[num_connections + 1], 1000)

FracMin(a, b) == IF FracLess(b, a) THEN b ELSE a

\* the weights (second components) of a list of connections
WeightsOf(conns) == [k \in 1..Len(conns) |-> conns[k][2]]

get_entity_influence_score(self, entity) ==
    IF ~HasNode(self.graph, entity) THEN FracOfInt(0)
    ELSE LET relationships == get_entity_relationships(self, entity)
             total_weight == SumSeq(WeightsOf(relationships.outgoing))
                             + SumSeq(WeightsOf(relationships.incoming))
             num_connections == Len(relationships.outgoing) + Len(relationships.incoming)
         IN  IF num_connections = 0 THEN FracOfInt(0)
             ELSE LET avg_weight == Frac(total_weight, num_connections)
                      influence == FracMul(avg_weight, InfluenceFactor(num_connections))
                  IN  FracMin(FracOfInt(One), influence)

\* The band limits 0.3, 0.6 and 0.8 of get_relationship_summary
WeakMax == 3
ModerateMax == 6
StrongMax == 8

\* sum(1 for w in weights if ...), the condition given as the set of stored
\* weights that meet it
CountWhere(ws, meeting) == Cardinality({k \in DOMAIN ws : ws[k] \in meeting})

\* type_counts[rt] = type_counts.get(rt, 0) + 1 over the list
RECURSIVE TypeCounts(_, _)
TypeCounts(counts, rel_types) ==
    IF rel_types = <<>> THEN counts
    ELSE TypeCounts(DictSet(counts, Head(rel_types), DictGet(counts, Head(rel_types), 0) + 1),
                    Tail(rel_types))

RECURSIVE MinSeq(_)
MinSeq(ws) == IF Len(ws) = 1 THEN ws[1] ELSE Min2(ws[1], MinSeq(Tail(ws)))

RECURSIVE MaxSeq(_)
MaxSeq(ws) == IF Len(ws) = 1 THEN ws[1] ELSE Max2(ws[1], MaxSeq(Tail(ws)))

\* Faulty variant: the strong band is closed below and open above
WeightRanges_StrongShifted(weights) ==
    [weak        |-> CountWhere(weights, {w \in 0..One : w <= WeakMax}),
     moderate    |-> CountWhere(weights, {w \in 0..One : WeakMax < w /\ w < ModerateMax}),
     strong      |-> CountWhere(weights, {w \in 0..One : ModerateMax <= w /\ w <= StrongMax}),
     very_strong |-> CountWhere(weights, {w \in 0..One : w > StrongMax})]

\* weight_ranges; the keys stand for 'weak (0-0.3)', 'moderate (0.3-0.6)',
\* 'strong (0.6-0.8)' and 'very_strong (0.8-1.0)'
WeightRanges(weights) ==
    [weak        |-> CountWhere(weights, {w \in 0..One : w <= WeakMax}),
     moderate    |-> CountWhere(weights, {w \in 0..One : WeakMax < w /\ w <= ModerateMax}),
     strong      |-> CountWhere(weights, {w \in 0..One : ModerateMax < w /\ w <= StrongMax}),
     very_strong |-> CountWhere(weights, {w \in 0..One : w > StrongMax})]

get_relationship_summary(self) ==
    LET relationships == get_relationships(self)
    IN  IF relationships = <<>>
        THEN [total_relationships |-> 0,
              average_weight |-> FracOfInt(0),
              weight_distribution |-> <<>>,
              relationship_types |-> <<>>]
        ELSE LET weights == [k \in 1..Len(relationships) |->
                                DictGet(relationships[k].data, "weight", DefaultWeight)]
                 rel_types == [k \in 1..Len(relationships) |->
                                DictGet(relationships[k].data, "relationship_type", "unknown")]
             IN  [total_relationships |-> Len(relationships),
                  average_weight |-> Frac(SumSeq(weights), Len(weights)),
                  min_weight |-> MinSeq(weights),
                  max_weight |-> MaxSeq(weights),
                  weight_distribution |-> WeightRanges(weights),
                  relationship_types |-> TypeCounts(<<>>, rel_types)]

\* -------------------------------------------------------- multi-hop paths
\* A double-precision result: the double nearest to num/den, moved by `ulps`
\* units in the last place.  A stored weight w is Float(w, One, 0).
Float(n, d, u) == [num |-> n, den |-> d, ulps |-> u]

FloatOfWeight(w) == Float(w, One, 0)

\* two results with different nearest values are ordered by them, two with
\* the same one by their last place
FloatLess(a, b) ==
    \/ a.num * b.den < b.num * a.den
    \/ a.num * b.den = b.num * a.den /\ a.ulps < b.ulps

FloatLeq(a, b) == ~FloatLess(b, a)

\* sum(weights) / len(weights) on doubles, added left to right from 0 and
\* divided once: the distance, in units in the last place, of the result
\* from the double nearest to the exact mean.  Tabulated for up to three
\* weights out of 0.3, 0.5 and 0.8.
TabulatedWeights == {3, 5, 8}

MeanOneUp ==
    {<<3, 3, 5>>, <<3, 5, 3>>, <<5, 3, 3>>, <<3, 8, 3>>, <<8, 3, 3>>,
     <<3, 8, 8>>, <<8, 3, 8>>, <<8, 8, 3>>, <<5, 8, 8>>, <<8, 5, 8>>,
     <<8, 8, 5>>, <<8, 8, 8>>}

MeanOneDown == {<<3, 3, 8>>}

MeanUlps(weights) ==
    CASE weights \in MeanOneUp -> 1
      [] weights \in MeanOneDown -> 0 - 1
      [] /\ weights \notin MeanOneUp \cup MeanOneDown
         /\ Len(weights) \in 1..3
         /\ Range(weights) \subseteq TabulatedWeights -> 0

float_mean(weights) == Float(SumSeq(weights), Len(weights) * One, MeanUlps(weights))

\* The dictionary appended for one path of find_multi_hop_paths
HopPathInfo(self, path) ==
    LET weights == get_path_weights(self, path)
    IN  [path |-> path,
         weights |-> weights,
         average_weight |-> IF weights # <<>> THEN float_mean(weights) ELSE Float(0, One, 0),
         min_weight |-> IF weights # <<>> THEN MinSeq(weights) ELSE 0,
         max_weight |-> IF weights # <<>> THEN MaxSeq(weights) ELSE 0]

\* list.sort(key=average_weight, reverse=True): descending and stable
RECURSIVE InsertByAverage(_, _)
InsertByAverage(sorted, x) ==
    IF sorted = <<>> THEN <<x>>
    ELSE IF FloatLess(Head(sorted).average_weight, x.average_weight)
         THEN <<x>> \o sorted
         ELSE <<Head(sorted)>> \o InsertByAverage(Tail(sorted), x)

RECURSIVE SortByAverage(_, _)
SortByAverage(acc, xs) ==
    IF xs = <<>> THEN acc
    ELSE SortByAverage(InsertByAverage(acc, Head(xs)), Tail(xs))

\* [p for p in paths if len(p) - 1 == hop_count]
exact_length_paths(self, source, target, hop_count, singleton) ==
    SelectSeq(find_all_paths(self, source, target, Some(hop_count), singleton),
              LAMBDA p : Len(p) - 1 = hop_count)

\* min_hops and max_hops of find_multi_hop_paths when omitted
DefaultMinHops == 1
DefaultMaxHops == 4

\* paths_by_length, a dict keyed by hop count in increasing order
find_multi_hop_paths(self, source, target, min_hops, max_hops, singleton) ==
    [hop_count \in {h \in min_hops..max_hops :
                       exact_length_paths(self, source, target, h, singleton) # <<>>} |->
        LET paths == exact_length_paths(self, source, target, hop_count, singleton)
        IN  SortByAverage(<<>>, [i \in 1..Len(paths) |-> HopPathInfo(self, paths[i])])]

\* ------------------------------------------------ neighbourhood analysis
find_common_neighbors(self, entity1, entity2, order) ==
    get_neighbors(self, entity1, order) \cap get_neighbors(self, entity2, order)

\* neighbor_details: the out-edges, then the in-edges of the entity
NeighborDetails(relationships) ==
    [k \in 1..Len(relationships.outgoing) |->
        [entity |-> relationships.outgoing[k][1], weight |-> relationships.outgoing[k][2],
         relationship_type |-> relationships.outgoing[k][3], direction |-> "outgoing"]]
    \o [k \in 1..Len(relationships.incoming) |->
        [entity |-> relationships.incoming[k][1], weight |-> relationships.incoming[k][2],
         relationship_type |-> relationships.incoming[k][3], direction |-> "incoming"]]

\* analysis[order]; `entities` is list(a_set), kept as the set
NeighborhoodOfOrder(self, entity, order) ==
    LET neighbors == get_neighbors(self, entity, order)
    IN  IF order = 1
        THEN LET neighbor_details ==
                     NeighborDetails(get_entity_relationships(self, entity))
             IN  [count |-> Cardinality(neighbors),
                  entities |-> neighbors,
                  details |-> neighbor_details,
                  average_weight |->
                      IF neighbor_details # <<>>
                      THEN Frac(SumSeq([k \in DOMAIN neighbor_details |->
                                           neighbor_details[k].weight]),
                                Len(neighbor_details))
                      ELSE FracOfInt(0)]
        ELSE [count |-> Cardinality(neighbors), entities |-> neighbors]

\* range(1, max_order + 1) is empty for max_order < 1
analyze_neighborhood_orders(self, entity, max_order) ==
    IF ~HasNode(self.graph, entity) THEN <<>>
    ELSE [order \in 1..max_order |-> NeighborhoodOfOrder(self, entity, order)]

analyze_entity_connectivity(self, entity, max_order) ==
    IF ~HasNode(self.graph, entity) THEN [entity |-> entity, exists |-> FALSE]
    ELSE LET neighborhoods == analyze_neighborhood_orders(self, entity, max_order)
             total_reachable ==
                 UNION {neighborhoods[order].entities :
                           order \in (1..max_order) \cap DOMAIN neighborhoods}
             relationships == get_entity_relationships(self, entity)
             total_connections == Len(relationships.outgoing) + Len(relationships.incoming)
         IN  [entity |-> entity,
              exists |-> TRUE,
              direct_connections |-> total_connections,
              outgoing_connections |-> Len(relationships.outgoing),
              incoming_connections |-> Len(relationships.incoming),
              neighborhoods |-> neighborhoods,
              total_reachable |-> Cardinality(total_reachable),
              reachable_entities |-> total_reachable]

\* list.sort(key=lambda x: x[1], reverse=True): descending and stable
RECURSIVE InsertByWeight(_, _)
InsertByWeight(sorted, x) ==
    IF sorted = <<>> THEN <<x>>
    ELSE IF Head(sorted)[2] < x[2] THEN <<x>> \o sorted
    ELSE <<Head(sorted)>> \o InsertByWeight(Tail(sorted), x)

RECURSIVE SortByWeight(_, _)
SortByWeight(acc, xs) ==
    IF xs = <<>> THEN acc ELSE SortByWeight(InsertByWeight(acc, Head(xs)), Tail(xs))

\* n of find_strongest_connections when omitted
DefaultTop == 5

find_strongest_connections(self, entity, n) ==
    IF ~HasNode(self.graph, entity) THEN <<>>
    ELSE LET relationships == get_entity_relationships(self, entity)
             all_connections == relationships.outgoing \o relationships.incoming
         IN  Take(SortByWeight(<<>>, all_connections), n)

\* ------------------------------------------ the graphs a query works on
\* The graph objects of find_critical_entities: the graph of the store, its
\* undirected view, and the copy made for the entity at hand
critical_objects(self) ==
    [store |-> self.graph, undirected |-> to_undirected(self.graph), temp_graph |-> None]

\* Faulty variant: the entity is removed from the graph of the store
critical_remove_FromStore(objs, entity) ==
    [objs EXCEPT !.store =
        [nodes |-> SelectSeq(@.nodes, LAMBDA x : x # entity),
         succ  |-> [m \in Range(@.nodes) \ {entity} |->
                      SelectSeq(@.succ[m], LAMBDA x : x # entity)],
         pred  |-> [m \in Range(@.nodes) \ {entity} |->
                      SelectSeq(@.pred[m], LAMBDA x : x # entity)],
         attr  |-> [e \in {q \in DOMAIN @.attr : q[1] # entity /\ q[2] # entity} |->
                      @.attr[e]]]]

\* temp_graph = undirected.copy(); temp_graph.remove_node(entity)
critical_remove(objs, entity) ==
    [objs EXCEPT !.temp_graph = Some(nx_remove_node(objs.undirected, entity))]

RECURSIVE CriticalObjectsFrom(_, _, _)
CriticalObjectsFrom(objs, entities, i) ==
    IF i > Len(entities) THEN objs
    ELSE CriticalObjectsFrom(critical_remove(objs, entities[i]), entities, i + 1)

\* the graph of the store when find_critical_entities returns
graph_after_critical(self) ==
    CriticalObjectsFrom(critical_objects(self), get_entities(self), 1).store

\* ----------------------------------------------------------- SearchEngine
\* The language-model service behind SearchEngine is an input: a function from
\* the question asked (an entity, a pair of entities) to a reply.  A reply is
\* [raised |-> TRUE] when the request or the parsing of the answer raises
\* inside the try block, and [raised |-> FALSE, result |-> r] with r the parsed
\* JSON value otherwise.  `client` is FALSE when no API key is configured.
\* A JSON value whose Python type matters is tagged with it.
Num(x) == [type |-> "number", value |-> x]
Str(x) == [type |-> "str", value |-> x]

Raised == [raised |-> TRUE]
Answer(r) == [raised |-> FALSE, result |-> r]

\* The context argument of every call
Context == ""

DefaultDescription(entity) == "Information about " \o entity

search_entity_info(client, entity, reply) ==
    IF ~client
    THEN [entity |-> entity, description |-> DefaultDescription(entity),
          context |-> Context]
    ELSE IF reply.raised
    THEN [entity |-> entity, description |-> DefaultDescription(entity),
          error |-> "error"]
    ELSE [entity |-> entity, description |-> reply.result, context |-> Context]

\* The confidence 0.5 and the weight 0.3 of a failed analysis, in tenths
DefaultConfidence == 5
FailedWeight == 3

analyze_relationship(client, entity1, entity2, reply) ==
    IF ~client
    THEN [entity1 |-> entity1, entity2 |-> entity2,
          relationship_type |-> DefaultType,
          weight |-> Num(DefaultWeight),
          description |-> "Relationship between " \o entity1 \o " and " \o entity2,
          bidirectional |-> FALSE]
    ELSE IF reply.raised
    THEN [entity1 |-> entity1, entity2 |-> entity2,
          relationship_type |-> "unknown",
          weight |-> Num(FailedWeight),
          description |-> "Could not analyze relationship",
          error |-> "error",
          bidirectional |-> FALSE,
          exists |-> FALSE]
    ELSE LET result == reply.result
         IN  [entity1 |-> entity1, entity2 |-> entity2,
              relationship_type |-> DictGet(result, "relationship_type", DefaultType),
              weight |-> DictGet(result, "weight", Num(DefaultWeight)),
              description |-> DictGet(result, "description", ""),
              bidirectional |-> DictGet(result, "bidirectional", FALSE),
              confidence |-> DictGet(result, "confidence", DefaultConfidence),
              exists |-> DictGet(result, "relationship_exists", TRUE)]

\* The weight 0.1 a relationship must exceed to be kept by the batch, in tenths
MinBatchWeight == 1

\* The pairs (i, j), i < j, of positions of a list of n entities, in loop order
PairsOf(n) ==
    LET F[i \in 0..n] ==
            IF i = 0 THEN <<>>
            ELSE F[i - 1] \o [k \in 1..(n - i) |-> <<i, i + k>>]
    IN  F[n]

\* batch_analyze_relationships: acc = [raised, relationships]; comparing a
\* weight that is no number with 0.1 raises TypeError, outside any try block
RECURSIVE BatchFrom(_, _, _, _, _)
BatchFrom(client, entities, replies, pairs, acc) ==
    IF pairs = <<>> THEN acc
    ELSE LET entity1 == entities[Head(pairs)[1]]
             entity2 == entities[Head(pairs)[2]]
             rel == analyze_relationship(client, entity1, entity2,
                                         replies[<<entity1, entity2>>])
         IN  IF ~DictGet(rel, "exists", FALSE)
             THEN BatchFrom(client, entities, replies, Tail(pairs), acc)
             ELSE IF rel.weight.type # "number"
             THEN [acc EXCEPT !.raised = TRUE]
             ELSE IF rel.weight.value > MinBatchWeight
             THEN BatchFrom(client, entities, replies, Tail(pairs),
                            [acc EXCEPT !.relationships = Append(@, rel)])
             ELSE BatchFrom(client, entities, replies, Tail(pairs), acc)

batch_analyze_relationships(client, entities, replies) ==
    BatchFrom(client, entities, replies, PairsOf(Len(entities)),
              [raised |-> FALSE, relationships |-> <<>>])

\* A JSON array element that is itself an array: not hashable in Python
NestedList == [type |-> "list"]

\* The list is cut to max_entities elements, whatever they are
discover_related_entities(client, entity, reply, max_entities) ==
    IF ~client THEN <<>>
    ELSE IF reply.raised THEN <<>>
    ELSE Take(reply.result, max_entities)

\* The locals of expand_entity_network before its first round; `related`
\* keeps, for every entity asked so far, the list it got back
ExpandLocals(seed_entities) ==
    [all_entities  |-> Range(seed_entities),
     current_level |-> Range(seed_entities),
     order         |-> 0,
     related       |-> <<>>,
     raised        |-> FALSE]

\* Faulty variant: the names already seen stay in the next frontier
expand_round_KeepsSeen(loc, client, max_per_entity, replies) ==
    LET related == [entity \in loc.current_level |->
                       discover_related_entities(client, entity, replies[entity],
                                                 max_per_entity)]
        found == UNION {Range(related[entity]) : entity \in loc.current_level}
    IN  IF \E x \in found : x.type # "str"
        THEN [loc EXCEPT !.raised = TRUE]
        ELSE LET next_level == {x.value : x \in found}
             IN  [all_entities  |-> loc.all_entities \cup next_level,
                  current_level |-> next_level,
                  order         |-> loc.order + 1,
                  related       |-> related @@ loc.related,
                  raised        |-> FALSE]

\* One round of "for order in range(expansion_order)": set.update raises
\* TypeError on an element that is not hashable, outside any try block
expand_round(loc, client, max_per_entity, replies) ==
    LET related == [entity \in loc.current_level |->
                       discover_related_entities(client, entity, replies[entity],
                                                 max_per_entity)]
        found == UNION {Range(related[entity]) : entity \in loc.current_level}
    IN  IF \E x \in found : x.type # "str"
        THEN [loc EXCEPT !.raised = TRUE]
        ELSE LET next_level == {x.value : x \in found} \ loc.all_entities
             IN  [all_entities  |-> loc.all_entities \cup next_level,
                  current_level |-> next_level,
                  order         |-> loc.order + 1,
                  related       |-> related @@ loc.related,
                  raised        |-> FALSE]

\* Faulty variant: the loop goes on until a round finds no new name
MoreRounds_IgnoresOrder(loc, expansion_order) ==
    loc.order = 0 \/ loc.current_level # {}

\* The loop goes on while rounds are left and the last one found a new name
MoreRounds(loc, expansion_order) ==
    loc.order < expansion_order /\ (loc.order = 0 \/ loc.current_level # {})

\* --------------------------------- RelationshipAnalyzer: building the graph
\* threshold of build_graph_from_entities and expand_graph when omitted
DefaultThreshold == 2

\* "for entity in entities: if entity not in self.kg: ..."
RECURSIVE AddEntitiesFrom(_, _, _, _, _)
AddEntitiesFrom(kg, client, entities, infos, i) ==
    IF i > Len(entities) THEN kg
    ELSE AddEntitiesFrom(
            IF ~HasNode(kg.graph, entities[i])
            THEN add_entity(kg, entities[i],
                            Some(search_entity_info(client, entities[i],
                                                    infos[entities[i]])))
            ELSE kg,
            client, entities, infos, i + 1)

\* The metadata stored with a relationship
RelMetadata(rel) ==
    [description |-> DictGet(rel, "description", ""),
     confidence  |-> DictGet(rel, "confidence", DefaultConfidence)]

\* The body of "for rel in relationships"
AddOneRelationship(kg, rel, threshold) ==
    IF rel.weight.value >= threshold
    THEN LET k1 == add_relationship(kg, rel.entity1, rel.entity2, rel.weight.value,
                                    DictGet(rel, "relationship_type", DefaultType),
                                    Some(RelMetadata(rel)))
         IN  IF DictGet(rel, "bidirectional", FALSE)
             THEN add_relationship(k1, rel.entity2, rel.entity1, rel.weight.value,
                                   DictGet(rel, "relationship_type", DefaultType),
                                   Some(RelMetadata(rel)))
             ELSE k1
    ELSE kg

RECURSIVE AddRelationshipsFrom(_, _, _)
AddRelationshipsFrom(kg, relationships, threshold) ==
    IF relationships = <<>> THEN kg
    ELSE AddRelationshipsFrom(AddOneRelationship(kg, Head(relationships), threshold),
                              Tail(relationships), threshold)

\* The result is [kg, raised]: when the batch raises, the entities are already
\* in the graph and no relationship has been added
build_graph_from_entities(self, client, entities, threshold, infos, replies) ==
    LET k1 == AddEntitiesFrom(self, client, entities, infos, 1)
        batch == batch_analyze_relationships(client, entities, replies)
    IN  IF batch.raised THEN [kg |-> k1, raised |-> TRUE]
        ELSE [kg |-> AddRelationshipsFrom(k1, batch.relationships, threshold),
              raised |-> FALSE]

\* -------------------------------------------------------- GraphStatistics
\* The outcome of a call that can end in an exception
Returned(v) == [raised |-> FALSE, val |-> v]
PointlessConcept == [raised |-> TRUE, error |-> "NetworkXPointlessConcept"]

\* Faulty variant: only the out-edges are counted
nx_degree_OutOnly(G) == [n \in Range(G.nodes) |-> Len(G.succ[n])]

\* DiGraph.degree(): the in-edges plus the out-edges of each node
nx_degree(G) == [n \in Range(G.nodes) |-> Len(G.succ[n]) + Len(G.pred[n])]

\* degree_dist[degree] = degree_dist.get(degree, 0) + 1 over the values
RECURSIVE DegreeCounts(_, _)
DegreeCounts(degree_dist, values) ==
    IF values = <<>> THEN degree_dist
    ELSE DegreeCounts(DictSet(degree_dist, Head(values),
                              DictGet(degree_dist, Head(values), 0) + 1),
                      Tail(values))

get_degree_distribution(self) ==
    LET degrees == nx_degree(self.graph)
    IN  DegreeCounts(<<>>, [i \in 1..Len(self.graph.nodes) |-> degrees[self.graph.nodes[i]]])

\* sum(k * v for k, v in degree_dist.items())
RECURSIVE SumItems(_, _)
SumItems(degree_dist, keys) ==
    IF keys = {} THEN 0
    ELSE LET k == CHOOSE x \in keys : TRUE
         IN  k * degree_dist[k] + SumItems(degree_dist, keys \ {k})

\* nx.density of a directed graph
nx_density(G) ==
    LET n == Len(G.nodes)
        m == Len(nx_edges(G))
    IN  IF m = 0 \/ n <= 1 THEN FracOfInt(0) ELSE Frac(m, n * (n - 1))

calculate_graph_density(self) == nx_density(self.graph)

get_connected_components(self) == nx_connected_components(to_undirected(self.graph))

\* nx.is_connected: undefined for the graph without nodes
nx_is_connected(U) ==
    IF Len(U.nodes) = 0 THEN PointlessConcept
    ELSE Returned(plain_bfs(U, {U.nodes[1]}, {U.nodes[1]}) = Range(U.nodes))

\* nx.single_source_shortest_path_length: the distance of every reached node
RECURSIVE LevelsFrom(_, _, _, _)
LevelsFrom(U, dist, thislevel, d) ==
    IF thislevel = {} THEN dist
    ELSE LET nextlevel == UNION {Range(U.adj[v]) : v \in thislevel} \ DOMAIN dist
         IN  LevelsFrom(U, [n \in nextlevel |-> d + 1] @@ dist, nextlevel, d + 1)

nx_shortest_path_length(U, source) == LevelsFrom(U, [n \in {source} |-> 0], {source}, 0)

\* nx.diameter of a connected graph: the largest eccentricity
nx_diameter(U) ==
    LET lengths == {nx_shortest_path_length(U, v)[w] : v \in Range(U.nodes), w \in Range(U.nodes)}
    IN  CHOOSE m \in lengths : \A x \in lengths : x <= m

RECURSIVE SumOver(_, _)
SumOver(f, keys) ==
    IF keys = {} THEN 0
    ELSE LET k == CHOOSE x \in keys : TRUE
         IN  f[k] + SumOver(f, keys \ {k})

\* nx.average_shortest_path_length of a connected graph with nodes
nx_average_shortest_path_length(U) ==
    LET n == Len(U.nodes)
        total == SumOver([v \in Range(U.nodes) |->
                            SumOver(nx_shortest_path_length(U, v), Range(U.nodes))],
                         Range(U.nodes))
    IN  IF n = 1 THEN FracOfInt(0) ELSE Frac(total, n * (n - 1))

\* max(components, key=len): the first of the largest
RECURSIVE MaxByLen(_, _)
MaxByLen(best, components) ==
    IF components = <<>> THEN best
    ELSE MaxByLen(IF Cardinality(Head(components)) > Cardinality(best)
                  THEN Head(components) ELSE best,
                  Tail(components))

nx_subgraph(U, keep) ==
    [nodes |-> SelectSeq(U.nodes, LAMBDA x : x \in keep),
     adj   |-> [m \in Range(U.nodes) \cap keep |-> SelectSeq(U.adj[m], LAMBDA x : x \in keep)]]

\* -1 stands for "not connected"
NotConnected == 0 - 1

calculate_diameter(self) ==
    LET undirected == to_undirected(self.graph)
        connected == nx_is_connected(undirected)
    IN  IF connected.raised THEN connected
        ELSE IF ~connected.val THEN Returned(NotConnected)
        ELSE Returned(nx_diameter(undirected))

calculate_average_path_length(self) ==
    LET undirected == to_undirected(self.graph)
        connected == nx_is_connected(undirected)
    IN  IF connected.raised THEN connected
        ELSE IF ~connected.val
        THEN LET components == nx_connected_components(undirected)
                 largest_cc == MaxByLen(Head(components), Tail(components))
             IN  Returned(nx_average_shortest_path_length(nx_subgraph(undirected, largest_cc)))
        ELSE Returned(nx_average_shortest_path_length(undirected))

\* The sections basic_stats, connectivity and degree_distribution of the
\* summary; the centrality, clustering and structure sections are scores the
\* library computes inside try blocks and are left out
get_network_summary(self) ==
    LET num_nodes == Len(self.graph.nodes)
        num_edges == Len(nx_edges(self.graph))
        components == get_connected_components(self)
        is_connected == Len(components) = 1
        density == calculate_graph_density(self)
        avg_path_length == calculate_average_path_length(self)
        diameter == calculate_diameter(self)
        degree_dist == get_degree_distribution(self)
        avg_degree == IF num_nodes > 0
                      THEN Frac(SumItems(degree_dist, DOMAIN degree_dist), num_nodes)
                      ELSE FracOfInt(0)
    IN  IF avg_path_length.raised THEN avg_path_length
        ELSE IF diameter.raised THEN diameter
        ELSE Returned(
               [basic_stats |-> [num_nodes |-> num_nodes, num_edges |-> num_edges,
                                 avg_degree |-> avg_degree, density |-> density],
                connectivity |-> [is_connected |-> is_connected,
                                  num_components |-> Len(components),
                                  largest_component_size |->
                                      IF components # <<>>
                                      THEN Cardinality(components[1]) ELSE 0,
                                  diameter |-> diameter.val,
                                  avg_path_length |-> avg_path_length.val],
                degree_distribution |-> degree_dist])

\* ------------------------------------------------------------------ state
VARIABLES
    graph,        \* KnowledgeGraph.graph
    entity_data,  \* KnowledgeGraph.entity_data
    call,         \* the last call made on the object: [op, args, val]
    named,        \* history: every name passed to an add call on this object
    lastw,        \* history: the weight given in the last add_relationship per pair
    nops          \* number of mutating calls made

vars == <<graph, entity_data, call, named, lastw, nops>>

Self == [graph |-> graph, entity_data |-> entity_data]

Init ==
    /\ graph = EmptyDiGraph
    /\ entity_data = <<>>
    /\ call = [op |-> "init", args |-> <<>>, val |-> None]
    /\ named = {}
    /\ lastw = <<>>
    /\ nops = 0

\* Arguments of the mutating calls of the store specification
EntityMetaArgs == Opt({EmptyMeta, M1, M2})

RelArgs ==
    { [weight |-> None,     relationship_type |-> None,               metadata |-> None],
      [weight |-> Some(-4), relationship_type |-> None,               metadata |-> Some(M1)],
      [weight |-> Some(13), relationship_type |-> Some("influences"), metadata |-> None],
      [weight |-> Some(3),  relationship_type |-> Some("influences"), metadata |-> Some(M2)],
      [weight |-> Some(8),  relationship_type |-> None,               metadata |-> Some(EmptyMeta)] }

\* Records handed to from_dict besides the object's own export: weights out of
\* range, a repeated pair, absent optional keys.
ImportData ==
    { [nodes |-> << [id |-> "A", metadata |-> M1] >>,
       edges |-> << [source |-> "A", target |-> "B", weight |-> 13,
                     relationship_type |-> "influences", metadata |-> M1],
                    [source |-> "A", target |-> "B", weight |-> -4] >>],
      [nodes |-> << [id |-> "B"], [id |-> "A", metadata |-> EmptyMeta] >>,
       edges |-> << [source |-> "B", target |-> "A"] >>] }

RECURSIVE DataWeights(_, _)
DataWeights(acc, edges) ==
    IF edges = <<>> THEN acc
    ELSE DataWeights(
            DictSet(acc, <<Head(edges).source, Head(edges).target>>,
                    DictGet(Head(edges), "weight", DefaultWeight)),
            Tail(edges))

DataNames(data) ==
    {data.nodes[i].id : i \in DOMAIN data.nodes}
    \cup {data.edges[i].source : i \in DOMAIN data.edges}
    \cup {data.edges[i].target : i \in DOMAIN data.edges}

AddEntity ==
    \E entity \in StoreNames, metadata \in EntityMetaArgs :
        LET k == add_entity(Self, entity, metadata)
        IN  /\ nops < MaxOps
            /\ graph' = k.graph
            /\ entity_data' = k.entity_data
            /\ call' = [op |-> "add_entity", args |-> <<entity, metadata>>, val |-> None,
                        pre |-> [existed |-> HasNode(graph, entity),
                                 metadata |-> DictGet(entity_data, entity, EmptyMeta)]]
            /\ named' = named \cup {entity}
            /\ nops' = nops + 1
            /\ UNCHANGED lastw

AddRelationship ==
    \E source \in StoreNames, target \in StoreNames, a \in RelArgs :
        LET w  == IF a.weight = None THEN DefaultWeight ELSE a.weight[1]
            ty == IF a.relationship_type = None THEN DefaultType
                  ELSE a.relationship_type[1]
            k  == add_relationship(Self, source, target, w, ty, a.metadata)
        IN  /\ nops < MaxOps
            /\ graph' = k.graph
            /\ entity_data' = k.entity_data
            /\ call' = [op |-> "add_relationship",
                        args |-> <<source, target, a.weight, a.relationship_type,
                                   a.metadata>>,
                        val |-> None,
                        pre |-> DictGetOpt(graph.attr, <<source, target>>)]
            /\ named' = named \cup {source, target}
            /\ lastw' = DictSet(lastw, <<source, target>>, w)
            /\ nops' = nops + 1

\* kg = KnowledgeGraph.from_dict(data): the object is replaced by the imported one
FromDict ==
    \E data \in {to_dict(Self)} \cup ImportData :
        LET k == from_dict(data)
        IN  /\ nops < MaxOps
            /\ graph' = k.graph
            /\ entity_data' = k.entity_data
            /\ call' = [op |-> "from_dict", args |-> <<data>>, val |-> None]
            /\ named' = DataNames(data)
            /\ lastw' = DataWeights(<<>>, data.edges)
            /\ nops' = nops + 1

GetEntities ==
    /\ call' = [op |-> "get_entities", args |-> <<>>, val |-> get_entities(Self)]
    /\ UNCHANGED <<graph, entity_data, named, lastw, nops>>

GetRelationships ==
    /\ call' = [op |-> "get_relationships", args |-> <<>>, val |-> get_relationships(Self)]
    /\ UNCHANGED <<graph, entity_data, named, lastw, nops>>

Next ==
    \/ AddEntity
    \/ AddRelationship
    \/ FromDict
    \/ GetEntities
    \/ GetRelationships

Spec == Init /\ [][Next]_vars

\* ------------------------------------------------- path queries on a graph
\* Entity names, number of relationships and arguments of the path queries
PathNames == {"A", "B", "C"}
MaxEdges == 3
MaxOrder == 3
MaxCutoff == 2

SeqsUpTo(S, n) == UNION {[1..k -> S] : k \in 0..n}

\* Relationship records with the default weight, type and metadata
PlainEdges == {[source |-> s, target |-> t] : s \in PathNames, t \in PathNames}

\* The object right after kg = KnowledgeGraph.from_dict(data)
Loaded(data) ==
    LET k == from_dict(data)
    IN  /\ graph = k.graph
        /\ entity_data = k.entity_data
        /\ call = [op |-> "from_dict", args |-> <<data>>, val |-> None]
        /\ named = DataNames(data)
        /\ lastw = DataWeights(<<>>, data.edges)
        /\ nops = 1

InitPaths ==
    \E edges \in SeqsUpTo(PlainEdges, MaxEdges) : Loaded([nodes |-> <<>>, edges |-> edges])

Query(op, args, val) ==
    /\ call.op = "from_dict"
    /\ call' = [op |-> op, args |-> args, val |-> val]
    /\ UNCHANGED <<graph, entity_data, named, lastw, nops>>

\* A name that is never an entity
Absent == "Z"

\* The arguments of the path queries: the entities of the graph and an absent name
QueryNames == Range(graph.nodes) \cup {Absent}

GetNeighbors ==
    \E entity \in QueryNames, order \in 1..MaxOrder :
        Query("get_neighbors", <<entity, order>>, get_neighbors(Self, entity, order))

FindShortestPath ==
    \E source \in QueryNames, target \in QueryNames :
        Query("find_shortest_path", <<source, target>>,
              find_shortest_path(Self, source, target))

FindAllPaths ==
    \E source \in QueryNames, target \in QueryNames, max_length \in Opt(0..MaxCutoff),
       singleton \in BOOLEAN :
        Query("find_all_paths", <<source, target, max_length, singleton>>,
              find_all_paths(Self, source, target, max_length, singleton))

NextPaths ==
    \/ GetNeighbors
    \/ FindShortestPath
    \/ FindAllPaths

SpecPaths == InitPaths /\ [][NextPaths]_vars

\* ------------------------------------- shortest paths on four-entity graphs
WideNames == {"A", "B", "C", "D"}
MaxWideEdges == 3

WideEdges == {e \in [source : WideNames, target : WideNames] : e.source # e.target}

InitShortest ==
    \E edges \in SeqsUpTo(WideEdges, MaxWideEdges) :
        Loaded([nodes |-> <<>>, edges |-> edges])

NextShortest == FindShortestPath

SpecShortest == InitShortest /\ [][NextShortest]_vars

\* ---------------------------------------------- weight queries on a graph
WeightNames == {"A", "B", "C"}
MaxWeightedEdges == 2
MaxPathLen == 3

WeightedEdges ==
    {e \in [source : WeightNames, target : WeightNames, weight : {3, 8}] :
        e.source # e.target}

InitWeights ==
    \E edges \in SeqsUpTo(WeightedEdges, MaxWeightedEdges) :
        Loaded([nodes |-> <<>>, edges |-> edges])

GetPathWeights ==
    \E path \in SeqsUpTo(WeightNames, MaxPathLen) :
        Query("get_path_weights", <<path>>, get_path_weights(Self, path))

GetAveragePathWeight ==
    \E path \in SeqsUpTo(WeightNames, MaxPathLen) :
        Query("get_average_path_weight", <<path>>, get_average_path_weight(Self, path))

CalculatePathStrength ==
    \E path \in SeqsUpTo(WeightNames, MaxPathLen) :
        Query("_calculate_path_strength", <<path>>, calculate_path_strength(Self, path))

\* max_length is omitted (the default applies) or one of 0..MaxCutoff
FindAllConnectingPaths ==
    \E entity1 \in QueryNames, entity2 \in QueryNames,
       max_length \in (0..MaxCutoff) \cup {DefaultConnectLength}, singleton \in BOOLEAN :
        Query("find_all_connecting_paths", <<entity1, entity2, max_length, singleton>>,
              find_all_connecting_paths(Self, entity1, entity2, max_length, singleton))

NextWeights ==
    \/ GetPathWeights
    \/ GetAveragePathWeight
    \/ CalculatePathStrength
    \/ FindAllConnectingPaths

SpecWeights == InitWeights /\ [][NextWeights]_vars

\* ------------------------------------- bridges and critical entities
\* Relationships of the structure queries: the cycle A-B-C-D-A, a chord, a
\* pair in both directions, a self-loop and a tail D-E
MaxStructEdges == 4

StructEdges ==
    { [source |-> "A", target |-> "B"], [source |-> "B", target |-> "C"],
      [source |-> "C", target |-> "D"], [source |-> "D", target |-> "A"],
      [source |-> "A", target |-> "C"], [source |-> "B", target |-> "A"],
      [source |-> "D", target |-> "D"], [source |-> "D", target |-> "E"] }

\* Entities listed in the imported record: none, or E before all others
StructNodes == { <<>>, << [id |-> "E"] >> }

InitStructure ==
    \E nodes \in StructNodes, edges \in SeqsUpTo(StructEdges, MaxStructEdges) :
        Loaded([nodes |-> nodes, edges |-> edges])

FindBridges == Query("find_bridges", <<>>, find_bridges(Self))

FindCriticalEntities == Query("find_critical_entities", <<>>, find_critical_entities(Self))

NextStructure ==
    \/ FindBridges
    \/ FindCriticalEntities

SpecStructure == InitStructure /\ [][NextStructure]_vars

\* ------------------------------------------------ path summaries on chains
\* A chain of up to MaxChainEdges relationships over the first names of
\* ChainNames, followed by at most one more relationship between two of them
MaxChainEdges == 6

ChainNames == <<"A", "B", "C", "D", "E", "F", "G", "H">>

Chain(k) == [i \in 1..k |-> [source |-> ChainNames[i], target |-> ChainNames[i + 1]]]

ExtraEdges(k) ==
    {<<>>} \cup {<<[source |-> ChainNames[i], target |-> ChainNames[j]]>> :
                    i \in 1..(k + 1), j \in 1..(k + 1)}

InitChains ==
    \E k \in 0..MaxChainEdges :
        \E extra \in ExtraEdges(k) :
            Loaded([nodes |-> <<>>, edges |-> Chain(k) \o extra])

GetPathSummary ==
    \E entity1 \in QueryNames, entity2 \in QueryNames, singleton \in BOOLEAN :
        Query("get_path_summary", <<entity1, entity2, singleton>>,
              get_path_summary(Self, entity1, entity2, singleton))

NextChains == GetPathSummary

SpecChains == InitChains /\ [][NextChains]_vars

\* ------------------------------------------ relationship summaries
\* Relationship records of the summary queries: the band limits 0.3, 0.6 and
\* 0.8 and the weight 0.9 with and without a type, and a record with neither
\* weight nor type
MaxRelationEdges == 2

RelationNames == {"A", "B"}

RelationProfiles ==
    {[weight |-> w] : w \in {3, 6, 8, 9}}
    \cup {[weight |-> w, relationship_type |-> "influences"] : w \in {3, 6, 8, 9}}
    \cup {<<>>}

RelationEdges ==
    {[source |-> s, target |-> t] @@ prof :
        s \in RelationNames, t \in RelationNames, prof \in RelationProfiles}

InitRelations ==
    \E nodes \in {<<>>, << [id |-> "C"] >>},
       edges \in SeqsUpTo(RelationEdges, MaxRelationEdges) :
        Loaded([nodes |-> nodes, edges |-> edges])

GetEntityInfluenceScore ==
    \E entity \in QueryNames :
        Query("get_entity_influence_score", <<entity>>,
              get_entity_influence_score(Self, entity))

GetRelationshipSummary ==
    Query("get_relationship_summary", <<>>, get_relationship_summary(Self))

NextRelations ==
    \/ GetEntityInfluenceScore
    \/ GetRelationshipSummary

SpecRelations == InitRelations /\ [][NextRelations]_vars

\* ------------------------------------------------- building from entities
\* Entity lists of up to MaxEntities names, repetitions included
MaxEntities == 3

BuildNames == {"A", "B"}

\* Parsed answers to the relationship question: a strong relationship in both
\* directions, a bare weight of 0.3, a denied relationship of weight 0.8, and
\* a weight that is no number; and a failed request
JudgeReplies ==
    { Answer([relationship_exists |-> TRUE, relationship_type |-> "influences",
              weight |-> Num(8), description |-> "d1", bidirectional |-> TRUE,
              confidence |-> 9]),
      Answer([weight |-> Num(3)]),
      Answer([relationship_exists |-> FALSE, weight |-> Num(8), bidirectional |-> TRUE]),
      Answer([weight |-> Str("high")]),
      Raised }

\* Replies to the entity question: a description, or a failed request
InfoReplies == {Answer("d1"), Raised}

Thresholds == {DefaultThreshold, 5}

\* One reply per question the operation can ask; without a client nothing is
\* asked
RepliesFor(client, keys, replies) ==
    IF client THEN [keys -> replies] ELSE {[k \in keys |-> Raised]}

\* the pairs (entity1, entity2) judged for a list of entities
JudgedPairs(entities) ==
    {<<entities[p[1]], entities[p[2]]>> : p \in Range(PairsOf(Len(entities)))}

BuildGraphFromEntities ==
    /\ call.op = "init"
    /\ \E client \in BOOLEAN, entities \in SeqsUpTo(BuildNames, MaxEntities),
          threshold \in Thresholds :
          \E infos \in RepliesFor(client, Range(entities), InfoReplies),
             replies \in RepliesFor(client, JudgedPairs(entities), JudgeReplies) :
              LET r == build_graph_from_entities(Self, client, entities, threshold,
                                                 infos, replies)
              IN  /\ graph' = r.kg.graph
                  /\ entity_data' = r.kg.entity_data
                  /\ call' = [op |-> "build_graph_from_entities",
                              args |-> <<client, entities, threshold, infos, replies>>,
                              val |-> None, raised |-> r.raised]
                  /\ UNCHANGED <<named, lastw, nops>>

NextBuild == BuildGraphFromEntities

SpecBuild == Init /\ [][NextBuild]_vars

\* ------------------------------------------------------ expanding a network
\* Rounds of discovery asked for, and length of a related-names answer
MaxExpansion == 2
MaxRelated == 2

ExpandNames == {"A", "B", "C"}

SeedLists == {<<"A">>, <<"A", "B">>}

DefaultPerEntity == 3
PerEntity == {1, DefaultPerEntity}

\* Parsed answers to the related-names question: a list of names, repetitions
\* included, or a list holding a nested list; and a failed request
RelatedReplies ==
    {Answer([i \in DOMAIN s |-> Str(s[i])]) : s \in SeqsUpTo(ExpandNames, MaxRelated)}
        \cup {Answer(<<NestedList>>), Raised}

\* list(a_set): the elements in an order the program does not control
Orderings(S) ==
    {s \in [1..Cardinality(S) -> S] : Range(s) = S}

\* The same reply to every question of the build step
UniformReplies(client, keys, replies) ==
    IF client THEN {[k \in keys |-> r] : r \in replies} ELSE {[k \in keys |-> Raised]}

\* expand_graph is entered: expand_entity_network sets up its two sets
ExpandStart ==
    /\ call.op = "init"
    /\ \E client \in BOOLEAN, seed_entities \in SeedLists,
          expansion_order \in 0..MaxExpansion, max_per_entity \in PerEntity :
          call' = [op |-> "expand_graph",
                   args |-> <<client, seed_entities, expansion_order, max_per_entity>>,
                   val |-> None, raised |-> FALSE, pc |-> "discover",
                   loc |-> ExpandLocals(seed_entities), entities |-> <<>>]
    /\ UNCHANGED <<graph, entity_data, named, lastw, nops>>

\* One pass of the loop body of expand_entity_network
ExpandRound ==
    /\ call.op = "expand_graph"
    /\ call.pc = "discover"
    /\ MoreRounds(call.loc, call.args[3])
    /\ \E replies \in RepliesFor(call.args[1], call.loc.current_level, RelatedReplies) :
          LET loc == expand_round(call.loc, call.args[1], call.args[4], replies)
          IN  call' = [call EXCEPT !.loc = loc, !.raised = loc.raised,
                                   !.pc = IF loc.raised THEN "done" ELSE "discover"]
    /\ UNCHANGED <<graph, entity_data, named, lastw, nops>>

\* expand_entity_network returns list(all_entities); its locals are gone
ExpandReturn ==
    /\ call.op = "expand_graph"
    /\ call.pc = "discover"
    /\ ~MoreRounds(call.loc, call.args[3])
    /\ \E all_entities \in Orderings(call.loc.all_entities) :
          call' = [call EXCEPT !.pc = "build", !.entities = all_entities,
                               !.loc = ExpandLocals(<<>>)]
    /\ UNCHANGED <<graph, entity_data, named, lastw, nops>>

\* expand_graph builds the graph from the returned list
ExpandBuild ==
    /\ call.op = "expand_graph"
    /\ call.pc = "build"
    /\ \E infos \in UniformReplies(call.args[1], Range(call.entities), InfoReplies),
          replies \in UniformReplies(call.args[1], JudgedPairs(call.entities), JudgeReplies) :
          LET r == build_graph_from_entities(Self, call.args[1], call.entities,
                                             DefaultThreshold, infos, replies)
          IN  /\ graph' = r.kg.graph
              /\ entity_data' = r.kg.entity_data
              /\ call' = [call EXCEPT !.pc = "done", !.raised = r.raised]
    /\ UNCHANGED <<named, lastw, nops>>

NextExpand ==
    \/ ExpandStart
    \/ ExpandRound
    \/ ExpandReturn
    \/ ExpandBuild

SpecExpand == Init /\ [][NextExpand]_vars

\* ------------------------------------------------------ network statistics
\* Graphs of up to MaxStatEdges relationships over four names, self-loops
\* included, with or without an entity E that has no relationship
MaxStatEdges == 3

StatNames == {"A", "B", "C", "D"}

StatEdges == {[source |-> s, target |-> t] : s \in StatNames, t \in StatNames}

InitStats ==
    \E nodes \in {<<>>, << [id |-> "E"] >>}, edges \in SeqsUpTo(StatEdges, MaxStatEdges) :
        Loaded([nodes |-> nodes, edges |-> edges])

GetDegreeDistribution ==
    Query("get_degree_distribution", <<>>, get_degree_distribution(Self))

GetNetworkSummary == Query("get_network_summary", <<>>, get_network_summary(Self))

NextStats ==
    \/ GetDegreeDistribution
    \/ GetNetworkSummary

SpecStats == InitStats /\ [][NextStats]_vars

\* ------------------------------------------------- every query on a graph
\* Graphs of up to MaxQueryEdges relationships over PathNames, self-loops
\* included; the orders asked for start below zero
MaxQueryEdges == 2
MaxQueryOrder == 2

QueryOrders == (0 - 1)..MaxQueryOrder

InitQueries ==
    \E edges \in SeqsUpTo(PlainEdges, MaxQueryEdges) :
        Loaded([nodes |-> <<>>, edges |-> edges])

GetEntityRelationships ==
    \E entity \in QueryNames :
        Query("get_entity_relationships", <<entity>>, get_entity_relationships(Self, entity))

GetNeighborsOfOrder ==
    \E entity \in QueryNames, order \in QueryOrders :
        Query("get_neighbors", <<entity, order>>, get_neighbors(Self, entity, order))

FindCommonNeighbors ==
    \E entity1 \in QueryNames, entity2 \in QueryNames, order \in QueryOrders :
        Query("find_common_neighbors", <<entity1, entity2, order>>,
              find_common_neighbors(Self, entity1, entity2, order))

FindStrongestConnections ==
    \E entity \in QueryNames, n \in {1, DefaultTop} :
        Query("find_strongest_connections", <<entity, n>>,
              find_strongest_connections(Self, entity, n))

AnalyzeNeighborhoodOrders ==
    \E entity \in QueryNames, max_order \in QueryOrders :
        Query("analyze_neighborhood_orders", <<entity, max_order>>,
              analyze_neighborhood_orders(Self, entity, max_order))

AnalyzeEntityConnectivity ==
    \E entity \in QueryNames, max_order \in QueryOrders :
        Query("analyze_entity_connectivity", <<entity, max_order>>,
              analyze_entity_connectivity(Self, entity, max_order))

ToDict == Query("to_dict", <<>>, to_dict(Self))

\* find_critical_entities with the graph it leaves in the store
CriticalEntitiesOnCopy ==
    /\ call.op = "from_dict"
    /\ graph' = graph_after_critical(Self)
    /\ call' = [op |-> "find_critical_entities", args |-> <<>>,
                val |-> find_critical_entities(Self)]
    /\ UNCHANGED <<entity_data, named, lastw, nops>>

NextQueries ==
    \/ GetEntityRelationships
    \/ GetNeighborsOfOrder
    \/ FindCommonNeighbors
    \/ FindStrongestConnections
    \/ AnalyzeNeighborhoodOrders
    \/ AnalyzeEntityConnectivity
    \/ FindShortestPath
    \/ FindAllPaths
    \/ GetPathSummary
    \/ GetEntityInfluenceScore
    \/ FindBridges
    \/ CriticalEntitiesOnCopy
    \/ GetRelationshipSummary
    \/ GetDegreeDistribution
    \/ GetNetworkSummary
    \/ ToDict

SpecQueries == InitQueries /\ [][NextQueries]_vars

\* ------------------------------------------------ multi-hop path queries
\* Graphs of up to MaxHopEdges weighted relationships over four entities, with
\* one relationship that closes a cycle
MaxHopEdges == 3

HopPairs ==
    {<<"A", "B">>, <<"B", "C">>, <<"C", "D">>, <<"A", "C">>, <<"B", "D">>, <<"A", "D">>}

HopEdges ==
    {[source |-> q[1], target |-> q[2], weight |-> w] : q \in HopPairs, w \in {3, 8}}
        \cup {[source |-> "B", target |-> "A", weight |-> 8]}

HopRanges ==
    {<<DefaultMinHops, DefaultMaxHops>>, <<0, 2>>, <<2, 3>>, <<3, 1>>}

InitHops ==
    \E edges \in SeqsUpTo(HopEdges, MaxHopEdges) :
        Loaded([nodes |-> <<>>, edges |-> edges])

FindMultiHopPaths ==
    \E target \in {"A", "D"}, hops \in HopRanges, singleton \in BOOLEAN :
        Query("find_multi_hop_paths", <<"A", target, hops[1], hops[2], singleton>>,
              find_multi_hop_paths(Self, "A", target, hops[1], hops[2], singleton))

NextHops == FindMultiHopPaths

SpecHops == InitHops /\ [][NextHops]_vars

\* =================================================================== claims
\* clamp(w, 0, 1) written out by cases, in tenths
ClampExpected(w) == IF w < 0 THEN 0 ELSE IF w > 10 THEN 10 ELSE w

\* C1: after any sequence of add_entity, add_relationship and from_dict calls,
\* every stored relationship weight lies in [0,1] and equals clamp(w, 0, 1) of
\* the weight w given in the last add_relationship call for that ordered pair.
C1_WeightClamped ==
    /\ DOMAIN lastw = DOMAIN graph.attr
    /\ \A p \in DOMAIN graph.attr :
        /\ 0 <= graph.attr[p].weight
        /\ graph.attr[p].weight <= 10
        /\ graph.attr[p].weight = ClampExpected(lastw[p])

\* A weight above 1 was stored as 1 and a weight below 0 as 0
C1_Witness ==
    /\ call.op = "add_relationship"
    /\ \E p, q \in DOMAIN graph.attr :
        /\ lastw[p] > 10 /\ graph.attr[p].weight = 10
        /\ lastw[q] < 0 /\ graph.attr[q].weight = 0

NoDuplicatePairs ==
    LET r == get_relationships(Self)
    IN  \A i, j \in DOMAIN r : (r[i].u = r[j].u /\ r[i].v = r[j].v) => i = j

OverwriteStep ==
    (call'.op = "add_relationship" /\ HasEdge(graph, call'.args[1], call'.args[2])) =>
        LET a == call'.args
        IN  /\ graph'.attr[<<a[1], a[2]>>] =
                 [weight |-> IF a[3] = None THEN 5 ELSE ClampExpected(a[3][1]),
                  relationship_type |-> IF a[4] = None THEN "related_to" ELSE a[4][1],
                  metadata |-> IF a[5] = None THEN EmptyMeta ELSE a[5][1]]
            /\ Len(get_relationships(Self)') = Len(get_relationships(Self))

\* C2: get_relationships() holds at most one record per ordered pair; a second
\* add_relationship for an existing pair replaces weight, type and metadata by
\* those of the second call ("related_to" and the empty mapping when omitted)
\* and leaves the number of relationships unchanged.
C2_OneRecordPerPair == [](NoDuplicatePairs) /\ [][OverwriteStep]_vars

\* An existing typed pair with metadata was overwritten by a call with defaults
C2_Witness ==
    /\ call.op = "add_relationship"
    /\ call.pre # None
    /\ call.pre[1].relationship_type = "influences"
    /\ call.pre[1].metadata = M2
    /\ call.args[4] = None
    /\ call.args[5] = None
    /\ graph.attr[<<call.args[1], call.args[2]>>].relationship_type = "related_to"

\* C3: get_entities() is exactly the set of names passed to add_entity together
\* with every source and target passed to add_relationship, none of them twice.
C3_EntitiesExact ==
    /\ Range(get_entities(Self)) = named
    /\ Len(get_entities(Self)) = Cardinality(named)

\* Both endpoints were created by a single add_relationship
C3_Witness ==
    /\ call.op = "add_relationship"
    /\ nops = 1
    /\ call.args[1] # call.args[2]
    /\ Range(get_entities(Self)) = {call.args[1], call.args[2]}

\* C4: add_entity on an existing entity: without metadata the entity set, the
\* relationships and the entity's metadata are unchanged; with a mapping
\* supplied (the empty mapping included) the stored metadata afterwards is
\* exactly the supplied mapping.
C4_AddEntityIdempotent ==
    [][ (call'.op = "add_entity" /\ HasNode(graph, call'.args[1])) =>
          LET e == call'.args[1]
              m == call'.args[2]
          IN  /\ Range(graph'.nodes) = Range(graph.nodes)
              /\ graph'.attr = graph.attr
              /\ (m = None =>
                    DictGet(entity_data', e, EmptyMeta) = DictGet(entity_data, e, EmptyMeta))
              /\ (m # None => DictGet(entity_data', e, EmptyMeta) = m[1]) ]_vars

\* The two exports hold the same records, whatever their order
SameRecords(s1, s2) == Len(s1) = Len(s2) /\ Range(s1) = Range(s2)

\* C6: from_dict(to_dict(G)) has the entity set, the ordered relationship
\* pairs, each weight, type and metadata, and the per-entity metadata of G, and
\* exporting it again yields the record to_dict(G) up to ordering.
C6_RoundTrip ==
    LET d  == to_dict(Self)
        k2 == from_dict(d)
        d2 == to_dict(k2)
    IN  /\ Range(k2.graph.nodes) = Range(graph.nodes)
        /\ DOMAIN k2.graph.attr = DOMAIN graph.attr
        /\ \A p \in DOMAIN graph.attr :
            /\ k2.graph.attr[p].weight = graph.attr[p].weight
            /\ k2.graph.attr[p].relationship_type = graph.attr[p].relationship_type
            /\ k2.graph.attr[p].metadata = graph.attr[p].metadata
        /\ \A n \in Range(graph.nodes) :
            DictGet(k2.entity_data, n, EmptyMeta) = DictGet(entity_data, n, EmptyMeta)
        /\ SameRecords(d2.nodes, d.nodes)
        /\ SameRecords(d2.edges, d.edges)

\* The object was re-imported from its own export, with entity and edge metadata
C6_Witness ==
    /\ call.op = "from_dict"
    /\ call.args[1] = to_dict(Self)
    /\ call.args[1] \notin ImportData
    /\ DOMAIN entity_data # {}
    /\ \E p \in DOMAIN graph.attr : graph.attr[p].metadata # EmptyMeta

\* ------------------------------------------------ walks, stated on the edges
Nodes == Range(graph.nodes)

Adjacent(x, y) == HasEdge(graph, x, y) \/ HasEdge(graph, y, x)

\* a walk of exactly k steps from a to b in the undirected view
UndirectedWalk(a, b, k) ==
    \E w \in [1..(k + 1) -> Nodes] :
        /\ w[1] = a
        /\ w[k + 1] = b
        /\ \A i \in 1..k : Adjacent(w[i], w[i + 1])

UndirectedDistance(a, b, k) ==
    /\ UndirectedWalk(a, b, k)
    /\ \A j \in 0..(k - 1) : ~UndirectedWalk(a, b, j)

\* a walk of exactly k steps from a to b along the relationships
DirectedWalk(a, b, k) ==
    \E w \in [1..(k + 1) -> Nodes] :
        /\ w[1] = a
        /\ w[k + 1] = b
        /\ \A i \in 1..k : HasEdge(graph, w[i], w[i + 1])

IsDirectedPath(p, s, t) ==
    /\ Len(p) >= 1
    /\ p[1] = s
    /\ p[Len(p)] = t
    /\ \A i \in 1..(Len(p) - 1) : HasEdge(graph, p[i], p[i + 1])

IsSimple(p) == \A i, j \in DOMAIN p : p[i] = p[j] => i = j

\* C5: for every entity e of the graph and every order k >= 1, get_neighbors(e, k)
\* is the set of entities at undirected distance exactly k from e (self-loops
\* and bidirectional pairs included); it never contains e, and b is a direct
\* neighbour of a exactly when a is one of b.
C5_NeighborsAtDistance ==
    /\ (call.op = "get_neighbors" /\ HasNode(graph, call.args[1])) =>
          /\ call.val = {x \in Nodes : UndirectedDistance(call.args[1], x, call.args[2])}
          /\ call.args[1] \notin call.val
    /\ \A a, b \in Nodes :
          b \in get_neighbors(Self, a, 1) <=> a \in get_neighbors(Self, b, 1)

\* C7: find_shortest_path(source, target) starts at source, ends at target,
\* follows a relationship at every step and has the fewest edges of all
\* directed paths; it is absent exactly when an endpoint is no entity or the
\* target cannot be reached.  On A->B, B->C it returns [A, B, C].
C7_ShortestPath ==
    call.op = "find_shortest_path" =>
        LET s == call.args[1]
            t == call.args[2]
            r == call.val
            reachable ==
                /\ s \in Nodes
                /\ t \in Nodes
                /\ \E k \in 0..(Cardinality(Nodes) - 1) : DirectedWalk(s, t, k)
        IN  /\ (r = None) <=> ~reachable
            /\ r # None =>
                  /\ IsDirectedPath(r[1], s, t)
                  /\ \A j \in 0..(Len(r[1]) - 2) : ~DirectedWalk(s, t, j)
            /\ (DOMAIN graph.attr = {<<"A", "B">>, <<"B", "C">>} /\ s = "A" /\ t = "C")
                  => r = Some(<<"A", "B", "C">>)

\* The path of the test: A->B, B->C and nothing else, from A to C
C7_Witness ==
    /\ call.op = "find_shortest_path"
    /\ call.args = <<"A", "C">>
    /\ DOMAIN graph.attr = {<<"A", "B">>, <<"B", "C">>}
    /\ call.val = Some(<<"A", "B", "C">>)

SimplePathSet(s, t) ==
    {p \in UNION {[1..n -> Nodes] : n \in 2..Cardinality(Nodes)} :
        IsDirectedPath(p, s, t) /\ IsSimple(p)}

\* C8: find_all_paths(source, target, max_length) returns each simple directed
\* path from source to target exactly once; when max_length is supplied, for
\* every supplied value, the returned paths are exactly the simple paths with
\* at most max_length edges; an absent endpoint gives the empty list.
C8_AllSimplePaths ==
    call.op = "find_all_paths" =>
        LET s  == call.args[1]
            t  == call.args[2]
            ml == call.args[3]
            r  == call.val
        IN  /\ (s \notin Nodes \/ t \notin Nodes) => r = <<>>
            /\ IsSimple(r)
            /\ \A i \in DOMAIN r :
                  /\ IsDirectedPath(r[i], s, t)
                  /\ IsSimple(r[i])
                  /\ ml # None => Len(r[i]) - 1 <= ml[1]
            /\ s # t =>
                  \A p \in SimplePathSet(s, t) :
                      (ml = None \/ Len(p) - 1 <= ml[1]) => p \in Range(r)

\* the positions of the consecutive pairs of p that are relationships
EdgePositions(p) == {i \in 1..(Len(p) - 1) : HasEdge(graph, p[i], p[i + 1])}

RECURSIVE SumWeightsAt(_, _)
SumWeightsAt(p, I) ==
    IF I = {} THEN 0
    ELSE LET i == CHOOSE x \in I : TRUE
         IN  graph.attr[<<p[i], p[i + 1]>>].weight + SumWeightsAt(p, I \ {i})

MeanAlong(p) ==
    IF EdgePositions(p) = {} THEN Frac(0, 1)
    ELSE Frac(SumWeightsAt(p, EdgePositions(p)), Cardinality(EdgePositions(p)))

WithDirection(r, d) == {i \in DOMAIN r : r[i].direction = d}

\* the simple directed paths from s to t with at most n edges
SimplePathsUpTo(s, t, n) == {p \in SimplePathSet(s, t) : Len(p) - 1 <= n}

\* C11: find_all_connecting_paths(a, b, max_length) returns one entry for every
\* simple directed path a->b and one for every simple directed path b->a with
\* at most max_length edges, each labelled with its own direction and with
\* length = number of edges; the list is in non-increasing strength_score
\* order, and entries of equal strength keep their enumeration order, all a->b
\* paths before all b->a paths.
C11_ConnectingPaths ==
    (call.op = "find_all_connecting_paths" /\ call.args[1] # call.args[2]) =>
        LET a  == call.args[1]
            b  == call.args[2]
            ml == call.args[3]
            r  == call.val
            ab == WithDirection(r, DirectionLabel(a, b))
            ba == WithDirection(r, DirectionLabel(b, a))
            enum == find_all_paths(Self, a, b, None, FALSE)
                    \o find_all_paths(Self, b, a, None, FALSE)
            pos(p) == CHOOSE k \in DOMAIN enum : enum[k] = p
        IN  /\ ab \cup ba = DOMAIN r
            /\ {r[i].path : i \in ab} = SimplePathsUpTo(a, b, ml)
            /\ {r[i].path : i \in ba} = SimplePathsUpTo(b, a, ml)
            /\ Cardinality(ab) = Cardinality(SimplePathsUpTo(a, b, ml))
            /\ Cardinality(ba) = Cardinality(SimplePathsUpTo(b, a, ml))
            /\ \A i \in DOMAIN r :
                  /\ r[i].length = Len(r[i].path) - 1
                  /\ r[i].length = Cardinality(EdgePositions(r[i].path))
            /\ \A i, j \in DOMAIN r :
                  i < j =>
                     /\ FracLeq(r[j].strength_score, r[i].strength_score)
                     /\ FracEq(r[j].strength_score, r[i].strength_score)
                           => pos(r[i].path) < pos(r[j].path)

\* ------------------------------------- components, stated on the edges
\* the entities joined to a by relationships among the entities of S, whatever
\* their direction, when the pair {x, y} is left out (x = y: nothing left out)
RECURSIVE JoinedWithin(_, _, _, _)
JoinedWithin(S, reached, x, y) ==
    LET more == {n \in S \ reached :
                    \E m \in reached : Adjacent(m, n) /\ {m, n} # {x, y}}
    IN  IF more = {} THEN reached ELSE JoinedWithin(S, reached \cup more, x, y)

\* the connected components of the undirected view restricted to S, without
\* the pair {x, y}
ComponentsOf(S, x, y) == {JoinedWithin(S, {a}, x, y) : a \in S}

NumComponents(S) == Cardinality(ComponentsOf(S, Absent, Absent))

\* the undirected edges {u, v}, self-loops included
UndirectedEdges == {{p[1], p[2]} : p \in DOMAIN graph.attr}

IsBridge(e) ==
    LET u == CHOOSE n \in e : TRUE
        v == CHOOSE n \in e : e = {u, n}
    IN  u # v /\ Cardinality(ComponentsOf(Nodes, u, v)) > NumComponents(Nodes)

\* C12: find_bridges() returns exactly the edges {u,v} of the undirected view
\* whose removal increases the number of connected components, each once: none
\* on the 4-cycle A-B-C-D-A, every edge on a path graph, and a pair joined in
\* both directions counts as one undirected edge.
C12_Bridges ==
    call.op = "find_bridges" =>
        LET r == call.val
        IN  /\ {{r[i][1], r[i][2]} : i \in DOMAIN r} = {e \in UndirectedEdges : IsBridge(e)}
            /\ \A i, j \in DOMAIN r :
                  {r[i][1], r[i][2]} = {r[j][1], r[j][2]} => i = j
            /\ UndirectedEdges = {{"A", "B"}, {"B", "C"}, {"C", "D"}, {"D", "A"}}
                  => r = <<>>
            /\ UndirectedEdges = {{"A", "B"}, {"B", "C"}, {"C", "D"}}
                  => Len(r) = 3

\* The only link between two parts is a pair with relationships in both
\* directions, reported once
C12_Witness ==
    /\ call.op = "find_bridges"
    /\ DOMAIN graph.attr = {<<"A", "B">>, <<"B", "A">>, <<"B", "C">>, <<"C", "D">>}
    /\ Len(call.val) = 3
    /\ \E i \in DOMAIN call.val : {call.val[i][1], call.val[i][2]} = {"A", "B"}

\* The 4-cycle A-B-C-D-A has no bridge
C12_WitnessCycle ==
    /\ call.op = "find_bridges"
    /\ UndirectedEdges = {{"A", "B"}, {"B", "C"}, {"C", "D"}, {"D", "A"}}
    /\ call.val = <<>>

\* the entities whose removal leaves more components than the graph has
CriticalSet == {e \in Nodes : NumComponents(Nodes \ {e}) > NumComponents(Nodes)}

\* the entities with a relationship to or from e, e itself left out
OtherNeighbours(e) == {n \in Nodes \ {e} : Adjacent(e, n)}

\* C13: find_critical_entities() reports an entity e with the component count
\* after its removal exactly when removing e and its incident edges from the
\* undirected view leaves strictly more connected components than the graph
\* has; the list is in non-increasing order of that count.  On the path graph
\* A-B-C-D it reports B and C with 2 components each; an isolated entity and
\* a leaf are never reported.
C13_CriticalEntities ==
    call.op = "find_critical_entities" =>
        LET r == call.val
        IN  /\ {r[i][1] : i \in DOMAIN r} = CriticalSet
            /\ Len(r) = Cardinality(CriticalSet)
            /\ \A i \in DOMAIN r : r[i][2] = NumComponents(Nodes \ {r[i][1]})
            /\ \A i, j \in DOMAIN r : i < j => r[i][2] >= r[j][2]
            /\ \A i \in DOMAIN r : Cardinality(OtherNeighbours(r[i][1])) >= 2
            /\ (Nodes = {"A", "B", "C", "D"}
                 /\ UndirectedEdges = {{"A", "B"}, {"B", "C"}, {"C", "D"}})
                  => {r[i] : i \in DOMAIN r} = {<<"B", 2>>, <<"C", 2>>}

\* D comes before A among the entities and splits the graph in 2, A splits it
\* in 3 and is reported first; B, C and E are leaves
C13_Witness ==
    /\ call.op = "find_critical_entities"
    /\ UndirectedEdges = {{"D", "E"}, {"D", "A"}, {"A", "B"}, {"A", "C"}}
    /\ graph.nodes[1] = "D"
    /\ call.val = << <<"A", 3>>, <<"D", 2>> >>

\* the entities reached from those of S along the relationships
RECURSIVE ReachedFrom(_)
ReachedFrom(S) ==
    LET more == {n \in Nodes \ S : \E m \in S : HasEdge(graph, m, n)}
    IN  IF more = {} THEN S ELSE ReachedFrom(S \cup more)

\* a directed path from a to b exists, of any length
HasDirectedPath(a, b) == a \in Nodes /\ b \in ReachedFrom({a})

\* C14: get_path_summary(a, b) reports connected=false only when the graph has
\* no directed path from a to b and none from b to a; whenever a directed path
\* exists in either direction, of any length, it reports connected=true.
C14_SummaryConnected ==
    call.op = "get_path_summary" =>
        ((HasDirectedPath(call.args[1], call.args[2])
            \/ HasDirectedPath(call.args[2], call.args[1]))
         => call.val.connected)

\* ------------------------------------ incident relationships, on the edges
Outgoing(e) == {p \in DOMAIN graph.attr : p[1] = e}
Incoming(e) == {p \in DOMAIN graph.attr : p[2] = e}

RECURSIVE SumWeightsOf(_)
SumWeightsOf(P) ==
    IF P = {} THEN 0
    ELSE LET p == CHOOSE x \in P : TRUE
         IN  graph.attr[p].weight + SumWeightsOf(P \ {p})

\* n: incoming plus outgoing relationships of e
NumIncident(e) == Cardinality(Outgoing(e)) + Cardinality(Incoming(e))

\* the mean weight of the incident relationships of e, for NumIncident(e) > 0
AvgIncident(e) == Frac(SumWeightsOf(Outgoing(e)) + SumWeightsOf(Incoming(e)), NumIncident(e))

\* min(1.0, avg * (1 + ln(n + 1) / 10)) with ln to two decimals
InfluenceExpected(avg, n) ==
    LET x == Frac(avg.num * (1000 + LnCenti[n + 1]), avg.den * 1000)
    IN  IF FracLess(Frac(10, 1), x) THEN Frac(10, 1) ELSE x

RECURSIVE SumCounts(_, _)
SumCounts(counts, keys) ==
    IF keys = {} THEN 0
    ELSE LET k == CHOOSE x \in keys : TRUE
         IN  counts[k] + SumCounts(counts, keys \ {k})

\* the relationships whose stored weight w satisfies lo < w <= hi, in tenths
InBand(lo, hi) ==
    {p \in DOMAIN graph.attr : lo < graph.attr[p].weight /\ graph.attr[p].weight <= hi}

\* C16: in get_relationship_summary() on a graph with at least one relationship
\* every relationship is counted in exactly one weight band and the four band
\* counts sum to total_relationships; weak is w <= 0.3, moderate 0.3 < w <= 0.6,
\* strong 0.6 < w <= 0.8, very_strong w > 0.8, so exactly 0.3 is weak, exactly
\* 0.6 moderate and exactly 0.8 strong; the type counts also sum to the total.
C16_WeightBands ==
    (call.op = "get_relationship_summary" /\ DOMAIN graph.attr # {}) =>
        LET v == call.val
            d == v.weight_distribution
        IN  /\ v.total_relationships = Cardinality(DOMAIN graph.attr)
            /\ d.weak + d.moderate + d.strong + d.very_strong = v.total_relationships
            /\ d.weak = Cardinality(InBand(-1, 3))
            /\ d.moderate = Cardinality(InBand(3, 6))
            /\ d.strong = Cardinality(InBand(6, 8))
            /\ d.very_strong = Cardinality(InBand(8, 10))
            /\ SumCounts(v.relationship_types, DOMAIN v.relationship_types)
                  = v.total_relationships
            /\ \A ty \in DOMAIN v.relationship_types :
                  v.relationship_types[ty] =
                      Cardinality({p \in DOMAIN graph.attr :
                                      graph.attr[p].relationship_type = ty})

\* One relationship of weight exactly 0.6 and one of exactly 0.8, of two types
C16_Witness ==
    /\ call.op = "get_relationship_summary"
    /\ {graph.attr[p].weight : p \in DOMAIN graph.attr} = {6, 8}
    /\ call.val.weight_distribution =
          [weak |-> 0, moderate |-> 1, strong |-> 1, very_strong |-> 0]
    /\ DOMAIN call.val.relationship_types = {"related_to", "influences"}

\* C17: get_relationship_summary() on a graph with zero relationships, with or
\* without entities, returns an all-zero summary: total 0, average_weight 0.0,
\* min_weight and max_weight zero, empty weight and type distributions.
C17_EmptySummary ==
    (call.op = "get_relationship_summary" /\ DOMAIN graph.attr = {}) =>
        LET v == call.val
        IN  /\ v.total_relationships = 0
            /\ v.average_weight.num = 0
            /\ DictGetOpt(v, "min_weight") = Some(0)
            /\ DictGetOpt(v, "max_weight") = Some(0)
            /\ v.weight_distribution = <<>>
            /\ v.relationship_types = <<>>

\* the judgment returned for the pair p = (entity1, entity2) in the last
\* build_graph_from_entities call
Judgment(p) == analyze_relationship(call.args[1], p[1], p[2], call.args[5][p])

\* C18: build_graph_from_entities(names, context, threshold) adds the
\* relationship entity1->entity2 for each judged pair whose returned weight is
\* >= threshold and for no pair whose returned weight is below it; when the
\* judgment of an added pair is marked bidirectional the reverse relationship
\* is stored with the same weight, type and metadata, and when it is not, no
\* reverse relationship is added by that judgment.
C18_ThresholdAndReverse ==
    (call.op = "build_graph_from_entities" /\ ~call.raised /\ IsSimple(call.args[2])) =>
        \A p \in JudgedPairs(call.args[2]) :
            LET rel == Judgment(p)
                e1  == rel.entity1
                e2  == rel.entity2
            IN  rel.weight.type = "number" =>
                  /\ rel.weight.value >= call.args[3] =>
                        /\ HasEdge(graph, e1, e2)
                        /\ graph.attr[<<e1, e2>>].weight = ClampExpected(rel.weight.value)
                        /\ rel.bidirectional =>
                              /\ HasEdge(graph, e2, e1)
                              /\ graph.attr[<<e2, e1>>] = graph.attr[<<e1, e2>>]
                        /\ ~rel.bidirectional => ~HasEdge(graph, e2, e1)
                  /\ rel.weight.value < call.args[3] =>
                        ~HasEdge(graph, e1, e2) /\ ~HasEdge(graph, e2, e1)

\* the names an asked entity got back, as the discovery returned them
NamesOf(related, entity) == {x.value : x \in Range(related[entity])}

\* seeds plus the names within k steps of the recorded related-names answers
RECURSIVE ReachWithin(_, _, _)
ReachWithin(related, seeds, k) ==
    IF k <= 0 THEN seeds
    ELSE LET R == ReachWithin(related, seeds, k - 1)
         IN  R \cup UNION {NamesOf(related, e) : e \in R \cap DOMAIN related}

\* C19: expand_entity_network proceeds in rounds: in each round exactly the
\* entities of the current frontier are asked for related names, the next
\* frontier is exactly the names returned in that round that were not seen
\* before, and discovery stops after expansion_order rounds or as soon as a
\* round finds no new name; the result is the seeds plus every name reachable
\* from a seed in at most expansion_order steps of the related-names relation,
\* and expand_graph then makes every one of them an entity of the graph.
C19_ExpansionRounds ==
    [][(call.op = "expand_graph" /\ call'.op = "expand_graph") =>
        LET loc   == call.loc
            seeds == Range(call.args[2])
            k     == call.args[3]
        IN  /\ (call.pc = "discover" /\ call'.pc = "discover") =>
                  LET returned == UNION {NamesOf(call'.loc.related, e) :
                                           e \in loc.current_level}
                  IN  /\ loc.order < k
                      /\ call'.loc.order = loc.order + 1
                      /\ DOMAIN call'.loc.related =
                            DOMAIN loc.related \cup loc.current_level
                      /\ \A e \in DOMAIN loc.related :
                            call'.loc.related[e] = loc.related[e]
                      /\ call'.loc.current_level = returned \ loc.all_entities
                      /\ call'.loc.all_entities = loc.all_entities \cup returned
                      /\ loc.order > 0 => loc.current_level # {}
            /\ (call.pc = "discover" /\ call'.pc = "build") =>
                  /\ loc.order = k \/ (loc.order > 0 /\ loc.current_level = {})
                  /\ ReachWithin(loc.related, seeds, k - 1) \subseteq
                        DOMAIN loc.related \cup (IF k = 0 THEN seeds ELSE {})
                  /\ Range(call'.entities) = ReachWithin(loc.related, seeds, k)
            /\ (call.pc = "build" /\ call'.pc = "done") =>
                  Range(call.entities) \subseteq Range(graph'.nodes)
      ]_vars

\* Two rounds from the seed A: A names B, B names C
C19_Witness ==
    /\ call.op = "expand_graph"
    /\ call.pc = "discover"
    /\ call.args[2] = <<"A">>
    /\ call.loc.order = 2
    /\ call.loc.related = [e \in {"A", "B"} |->
                              IF e = "A" THEN <<Str("B")>> ELSE <<Str("C")>>]
    /\ call.loc.all_entities = {"A", "B", "C"}

\* the graph of an expand_graph call holds every discovered name
C19_WitnessBuilt ==
    /\ call.op = "expand_graph"
    /\ call.pc = "done"
    /\ ~call.raised
    /\ call.args[2] = <<"A">>
    /\ Range(graph.nodes) = {"A", "B", "C"}

\* C20: a failure of one discovery-collaborator call (a raised error or a
\* malformed response such as a non-numeric weight or a related-names answer
\* that is not a list of names) never aborts build_graph_from_entities or
\* expand_graph: the failed entity or pair is treated as no metadata, no
\* relationship, no related names, every remaining entity and pair is still
\* processed, and the operation returns the graph.
C20_FailureNeverAborts ==
    /\ call.op = "build_graph_from_entities" =>
          /\ ~call.raised
          /\ Range(call.args[2]) \subseteq Range(graph.nodes)
          /\ IsSimple(call.args[2]) =>
                \A p \in JudgedPairs(call.args[2]) :
                    LET rel == Judgment(p)
                    IN  (/\ rel.weight.type = "number"
                         /\ DictGet(rel, "exists", FALSE)
                         /\ rel.weight.value >= call.args[3])
                            => HasEdge(graph, rel.entity1, rel.entity2)
    /\ (call.op = "expand_graph" /\ call.pc = "done") =>
          /\ ~call.raised
          /\ Range(call.entities) \subseteq Range(graph.nodes)

\* ------------------------------------------------ statistics, on the edges
RECURSIVE TotalDegree(_)
TotalDegree(S) ==
    IF S = {} THEN 0
    ELSE LET n == CHOOSE x \in S : TRUE
         IN  NumIncident(n) + TotalDegree(S \ {n})

RECURSIVE TotalCount(_, _)
TotalCount(dist, keys) ==
    IF keys = {} THEN 0
    ELSE LET k == CHOOSE x \in keys : TRUE
         IN  dist[k] + TotalCount(dist, keys \ {k})

\* C21: for every graph, the counts of get_degree_distribution() sum to the
\* number of entities, each entity being counted once under its total degree
\* (in-degree plus out-degree), and the avg_degree of get_network_summary()
\* equals the sum of all degrees divided by the number of entities.
C21_DegreeDistribution ==
    /\ call.op = "get_degree_distribution" =>
          LET dist == call.val
          IN  /\ TotalCount(dist, DOMAIN dist) = Cardinality(Nodes)
              /\ \A n \in Nodes : NumIncident(n) \in DOMAIN dist
              /\ \A d \in DOMAIN dist :
                    dist[d] = Cardinality({n \in Nodes : NumIncident(n) = d})
    /\ (call.op = "get_network_summary" /\ ~call.val.raised) =>
          LET stats == call.val.val.basic_stats
          IN  /\ stats.num_nodes = Cardinality(Nodes)
              /\ FracEq(stats.avg_degree, Frac(TotalDegree(Nodes), Cardinality(Nodes)))

\* An entity without relationship, one with a self-loop and an out-edge, and
\* the target of that edge: degrees 0, 3 and 1
C21_Witness ==
    /\ call.op = "get_degree_distribution"
    /\ DOMAIN graph.attr = {<<"A", "A">>, <<"A", "B">>}
    /\ Nodes = {"E", "A", "B"}
    /\ call.val = (0 :> 1) @@ (3 :> 1) @@ (1 :> 1)

\* the summary of the same graph: four edge ends over three entities
C21_WitnessAverage ==
    /\ call.op = "get_network_summary"
    /\ DOMAIN graph.attr = {<<"A", "A">>, <<"A", "B">>}
    /\ Nodes = {"E", "A", "B"}
    /\ ~call.val.raised
    /\ call.val.val.basic_stats.avg_degree = Frac(4, 3)

\* C22: get_network_summary() returns a complete summary without raising for
\* every graph, including the empty graph, a single entity and a disconnected
\* graph: a measure that cannot be computed on the current graph shape
\* degrades to its documented default (diameter -1 when the undirected view is
\* not connected) instead of propagating an error.
C22_SummaryNeverRaises ==
    call.op = "get_network_summary" =>
        /\ ~call.val.raised
        /\ NumComponents(Nodes) # 1 => call.val.val.connectivity.diameter = NotConnected

\* the largest size among the components of the undirected view
LargestComponent ==
    LET sizes == {Cardinality(c) : c \in ComponentsOf(Nodes, Absent, Absent)} \cup {0}
    IN  CHOOSE m \in sizes : \A x \in sizes : x <= m

\* C30: in get_network_summary(), connectivity.largest_component_size equals
\* the size of the largest connected component of the undirected view (0 for
\* the empty graph), num_components equals the number of those components,
\* and is_connected is true exactly when there is one component, whatever the
\* order in which entities and relationships were added.
C30_LargestComponent ==
    (call.op = "get_network_summary" /\ ~call.val.raised) =>
        LET c == call.val.val.connectivity
        IN  /\ c.num_components = NumComponents(Nodes)
            /\ c.is_connected <=> (NumComponents(Nodes) = 1)
            /\ c.largest_component_size = LargestComponent

\* ------------------------------------------- queries, stated on the edges
\* the query names an entity that the graph does not hold
NamesAbsent(S) == \E e \in S : e \notin Nodes

\* C23: every query that names an entity absent from the graph returns an
\* empty or absent result without raising and without creating the entity:
\* get_entity_relationships gives two empty lists, get_neighbors and
\* find_common_neighbors an empty set, find_all_paths and
\* find_strongest_connections an empty list, find_shortest_path absent,
\* analyze_neighborhood_orders an empty mapping, get_entity_influence_score 0,
\* get_path_summary connected=false.
C23_AbsentEntity ==
    LET a == call.args
        v == call.val
    IN  /\ (call.op = "get_entity_relationships" /\ NamesAbsent({a[1]})) =>
              v = [outgoing |-> <<>>, incoming |-> <<>>]
        /\ (call.op = "get_neighbors" /\ NamesAbsent({a[1]})) => v = {}
        /\ (call.op = "find_common_neighbors" /\ NamesAbsent({a[1], a[2]})) => v = {}
        /\ (call.op = "find_all_paths" /\ NamesAbsent({a[1], a[2]})) => v = <<>>
        /\ (call.op = "find_strongest_connections" /\ NamesAbsent({a[1]})) => v = <<>>
        /\ (call.op = "find_shortest_path" /\ NamesAbsent({a[1], a[2]})) => v = None
        /\ (call.op = "analyze_neighborhood_orders" /\ NamesAbsent({a[1]})) => v = <<>>
        /\ (call.op = "get_entity_influence_score" /\ NamesAbsent({a[1]})) => v.num = 0
        /\ (call.op = "get_path_summary" /\ NamesAbsent({a[1], a[2]})) => ~v.connected
        /\ Absent \notin Nodes
        /\ Absent \notin DOMAIN entity_data

\* Common neighbours of an entity with neighbours and an absent name, order 1
C23_Witness ==
    /\ call.op = "find_common_neighbors"
    /\ call.args = <<"A", Absent, 1>>
    /\ HasEdge(graph, "A", "B")
    /\ call.val = {}

\* the call ended in an error
Failed == "raised" \in DOMAIN call /\ call.raised

\* C24: a neighbourhood query with a negative order fails with an error
\* instead of returning a result: analyze_neighborhood_orders(e, max_order)
\* and analyze_entity_connectivity(e, max_order) with max_order < 0, and
\* get_neighbors(e, order) with order < 0, each end in an error outcome for an
\* existing entity e, and the graph is unchanged.
C24_NegativeOrderFails ==
    (/\ call.op \in {"get_neighbors", "analyze_neighborhood_orders",
                      "analyze_entity_connectivity"}
     /\ call.args[1] \in Nodes
     /\ call.args[2] < 0) => Failed

\* the entities other than e within k undirected steps of e
WithinHops(e, k) ==
    {n \in Nodes \ {e} : \E j \in 1..k : UndirectedWalk(e, n, j)}

\* C26: for an existing entity e and max_order >= 1,
\* analyze_neighborhood_orders returns entries for exactly the orders
\* 1..max_order, and analyze_entity_connectivity reports outgoing_connections
\* and incoming_connections equal to e's out- and in-relationship counts,
\* direct_connections equal to their sum, and total_reachable equal to the
\* number of distinct entities other than e within max_order undirected hops
\* of e, never counting e itself.
C26_Connectivity ==
    LET e == call.args[1]
        v == call.val
    IN  /\ (call.op = "analyze_neighborhood_orders" /\ e \in Nodes /\ call.args[2] >= 1) =>
              DOMAIN v = 1..call.args[2]
        /\ (call.op = "analyze_entity_connectivity" /\ e \in Nodes /\ call.args[2] >= 1) =>
              /\ v.outgoing_connections = Cardinality(Outgoing(e))
              /\ v.incoming_connections = Cardinality(Incoming(e))
              /\ v.direct_connections = NumIncident(e)
              /\ v.total_reachable = Cardinality(WithinHops(e, call.args[2]))

\* C27: every query operation of the graph store, the path analyzer, the
\* relationship scorer and the statistics engine leaves the graph unchanged:
\* the entity set, the relationship set with all weights, types and metadata,
\* and the entity metadata are the same after the call as before;
\* find_critical_entities removes entities only from a throwaway copy.
C27_QueriesLeaveGraph ==
    [][(call'.op \in {"get_entity_relationships", "get_neighbors", "find_common_neighbors",
                      "find_strongest_connections", "analyze_neighborhood_orders",
                      "analyze_entity_connectivity", "find_shortest_path",
                      "find_all_paths", "get_path_summary", "get_entity_influence_score",
                      "find_bridges", "find_critical_entities",
                      "get_relationship_summary", "get_degree_distribution",
                      "get_network_summary", "to_dict"})
          => (graph' = graph /\ entity_data' = entity_data)]_vars

\* find_critical_entities found the middle entity of A - B - C, and the three
\* entities and both relationships are still in the store
C27_Witness ==
    /\ call.op = "find_critical_entities"
    /\ call.val = << <<"B", 2>> >>
    /\ Nodes = {"A", "B", "C"}
    /\ DOMAIN graph.attr = {<<"A", "B">>, <<"B", "C">>}

\* the paths of a bucket, in its order
BucketPaths(b) == [i \in DOMAIN b |-> b[i].path]

\* C25: find_multi_hop_paths(source, target, min_hops, max_hops) has a bucket
\* for hop count h, min_hops <= h <= max_hops, exactly when at least one
\* simple directed path from source to target has exactly h edges; that bucket
\* holds every such path once and no path of another length, in
\* non-increasing average_weight order, each with
\* min_weight <= average_weight <= max_weight taken over its own edge weights.
C25_HopBuckets ==
    call.op = "find_multi_hop_paths" =>
        LET s == call.args[1]
            t == call.args[2]
            r == call.val
        IN  /\ DOMAIN r \subseteq call.args[3]..call.args[4]
            /\ \A h \in DOMAIN r :
                  /\ r[h] # <<>>
                  /\ IsSimple(BucketPaths(r[h]))
                  /\ \A i \in DOMAIN r[h] :
                        /\ IsDirectedPath(r[h][i].path, s, t)
                        /\ IsSimple(r[h][i].path)
                        /\ Len(r[h][i].path) - 1 = h
                        /\ FloatLeq(FloatOfWeight(r[h][i].min_weight), r[h][i].average_weight)
                        /\ FloatLeq(r[h][i].average_weight, FloatOfWeight(r[h][i].max_weight))
                  /\ \A i, j \in DOMAIN r[h] :
                        i < j => FloatLeq(r[h][j].average_weight, r[h][i].average_weight)
            /\ s # t =>
                  \A p \in SimplePathSet(s, t) :
                      (Len(p) - 1) \in call.args[3]..call.args[4] =>
                          /\ (Len(p) - 1) \in DOMAIN r
                          /\ p \in Range(BucketPaths(r[Len(p) - 1]))

\* C28: add_relationship(s, t, ...) changes only the record of the ordered
\* pair (s, t) and, when absent, adds s and t as entities: every other
\* relationship, the reverse relationship (t, s) included, keeps its weight,
\* type and metadata, no relationship is removed, and the stored metadata of
\* every entity is unchanged.
C28_OnlyThePair ==
    [][call'.op = "add_relationship" =>
          LET st == <<call'.args[1], call'.args[2]>>
          IN  /\ DOMAIN graph'.attr = DOMAIN graph.attr \cup {st}
              /\ \A q \in DOMAIN graph.attr \ {st} : graph'.attr[q] = graph.attr[q]
              /\ Range(graph'.nodes) = Nodes \cup {st[1], st[2]}
              /\ entity_data' = entity_data]_vars

\* add_relationship has replaced the record of (s, t) while the reverse
\* relationship is stored with another weight
C28_Witness ==
    /\ call.op = "add_relationship"
    /\ call.args[1] # call.args[2]
    /\ call.pre # None
    /\ call.pre[1].weight # graph.attr[<<call.args[1], call.args[2]>>].weight
    /\ <<call.args[2], call.args[1]>> \in DOMAIN graph.attr
    /\ graph.attr[<<call.args[2], call.args[1]>>].weight
           # graph.attr[<<call.args[1], call.args[2]>>].weight

\* C29: during expand_entity_network every entity is asked for related names
\* at most once (an entity enters the frontier only in the round after it is
\* first seen, seeds in the first round), and the discovery loop ends after at
\* most expansion_order rounds whatever the collaborator returns, even when
\* every answer contains new names.
C29_AskedOnceBoundedRounds ==
    [][(call.op = "expand_graph" /\ call.pc = "discover" /\ call'.pc # "build") =>
          /\ call.loc.current_level \cap DOMAIN call.loc.related = {}
          /\ call.loc.order < call.args[3]
          /\ call.loc.order = 0 => call.loc.current_level = Range(call.args[2])
          /\ ~call'.raised =>
                /\ call'.loc.order = call.loc.order + 1
                /\ DOMAIN call'.loc.related =
                       DOMAIN call.loc.related \cup call.loc.current_level
                /\ call'.loc.current_level \cap call.loc.all_entities = {}
                /\ call'.loc.current_level \subseteq call'.loc.all_entities]_vars

\* The second of two rounds has found a new name, and no round is left
C29_Witness ==
    /\ call.op = "expand_graph"
    /\ call.pc = "discover"
    /\ call.args[3] = 2
    /\ call.loc.order = 2
    /\ call.loc.current_level # {}
    /\ ~MoreRounds(call.loc, call.args[3])

====
